---------------------------- MODULE Spec2Model ----------------------------
(***************************************************************************)
(* Model of the learning-path generation pipeline                          *)
(* (app/services/learning_path/learning_path_ai_service.py) and of the     *)
(* niche / question catalog with its process-lifetime caches               *)
(* (app/services/learning_path/learning_path_service.py).                  *)
(*                                                                         *)
(* Strings.  A Python str is modelled as a sequence of pieces.  The        *)
(* strings that the code transforms or searches (niche names, topics,      *)
(* subtopic titles, answer keys and values) are sequences of single        *)
(* characters, so lower(), replace() and the `in` substring test are       *)
(* computed character by character.  The literal text of an f-string is    *)
(* kept as one piece; f"Official {topic} Documentation" is                 *)
(* <<"Official ">> \o topic \o <<" Documentation">>.                       *)
(***************************************************************************)
EXTENDS Integers, Sequences, FiniteSets, TLC

(***************************************************************************)
(* Bounds of the model                                                     *)
(***************************************************************************)
\* largest number of modules a Stage 1 completion returns in the model
MaxUnits == 2

\* largest number of topics of a Stage 1 module in the model
MaxTopics == 2

\* Optional[T]: None is the empty list and a present value v is <<v>>
None == <<>>

Some(v) == <<v>>

IsNone(x) == Len(x) = 0

\* the value of a present Optional
The(x) == x[1]

(***************************************************************************)
(* str.lower(), str.replace(), the `in` substring test                     *)
(***************************************************************************)
UpperCase == <<"A","B","C","D","E","F","G","H","I","J","K","L","M",
               "N","O","P","Q","R","S","T","U","V","W","X","Y","Z">>

LowerCase == <<"a","b","c","d","e","f","g","h","i","j","k","l","m",
               "n","o","p","q","r","s","t","u","v","w","x","y","z">>

\* the lower-case letter of each upper-case letter
ToLower == [c \in {UpperCase[k] : k \in 1..26} |->
               LowerCase[CHOOSE k \in 1..26 : UpperCase[k] = c]]

LowerChar(c) == IF c \in DOMAIN ToLower THEN ToLower[c] ELSE c

\* s.lower()
Lower(s) == [k \in 1..Len(s) |-> LowerChar(s[k])]

RECURSIVE Flatten(_)
\* concatenation of a list of lists (list.extend in a loop)
Flatten(ss) == IF ss = <<>> THEN <<>> ELSE Head(ss) \o Flatten(Tail(ss))

\* s.replace(old, new) for a one-character old; new is a string: empty (the
\* character is dropped), of one piece, or longer
Replace(s, old, new) ==
    IF Len(new) = 0 THEN SelectSeq(s, LAMBDA c : c # old)
    ELSE IF Len(new) = 1 THEN [k \in 1..Len(s) |-> IF s[k] = old THEN new[1] ELSE s[k]]
    ELSE Flatten([k \in 1..Len(s) |-> IF s[k] = old THEN new ELSE <<s[k]>>])

\* sub in s
Contains(s, sub) ==
    \E t \in {s} :    \* s is evaluated once
        \E k \in 1..(Len(t) - Len(sub) + 1) : SubSeq(t, k, k + Len(sub) - 1) = sub

(***************************************************************************)
(* Inputs of generate_learning_path                                        *)
(***************************************************************************)
DevOps == <<"D","e","v","O","p","s">>

DataScience == <<"D","a","t","a"," ","S","c","i","e","n","c","e">>

experience_level == <<"e","x","p","e","r","i","e","n","c","e","_","l","e","v","e","l">>

learning_goal == <<"l","e","a","r","n","i","n","g","_","g","o","a","l">>

\* an option of the experience_level question (line 105)
AdvancedAnswer ==
    <<"A","d","v","a","n","c","e","d"," ","w","i","t","h"," ","s","i","g","n",
      "i","f","i","c","a","n","t"," ","e","x","p","e","r","i","e","n","c",
      "e">>

\* an option of the experience_level question (line 104)
IntermediateAnswer ==
    <<"I","n","t","e","r","m","e","d","i","a","t","e"," ","w","i","t","h"," ",
      "p","r","a","c","t","i","c","a","l"," ","e","x","p","e","r","i","e","n",
      "c","e">>

\* an option of the learning_goal question (line 113)
CareerAnswer ==
    <<"C","a","r","e","e","r"," ","t","r","a","n","s","i","t","i","o","n"," ",
      "i","n","t","o"," ","t","h","i","s"," ","f","i","e","l","d">>

\* an option of the experience_level question (line 106)
ExpertAnswer ==
    <<"E","x","p","e","r","t"," ","l","o","o","k","i","n","g"," ","t","o",
      " ","s","p","e","c","i","a","l","i","z","e"," ","f","u","r","t","h",
      "e","r">>

\* an option of the first static question (learning_path_service.py line 546)
StaticAdvancedAnswer == <<"A","d","v","a","n","c","e","d">>

\* the id of the first static question of niche 1: f"static_{niche_id}_1"
static_1_1 == <<"s","t","a","t","i","c","_","1","_","1">>

\* a question id of the completion service's own making
Prior_Experience ==
    <<"P","r","i","o","r"," ","E","x","p","e","r","i","e","n","c","e">>

\* the (niche_name, answers) arguments of the runs of the model; answers is a
\* Dict[str, str] in insertion order, a list of <<key, value>>
GenerateArguments ==
    { <<DevOps, <<>>>>,
      <<DataScience, << <<experience_level, AdvancedAnswer>> >>>>,
      <<DataScience, << <<learning_goal, CareerAnswer>>,
                        <<experience_level, IntermediateAnswer>> >>>> }


(***************************************************************************)
(* Output models (app/services/learning_path/models.py)                    *)
(***************************************************************************)
DigitChar == <<"0","1","2","3","4","5","6","7","8","9">>

RECURSIVE DecimalStr(_)
\* str(n) of a non-negative int, as it appears inside an f-string
DecimalStr(n) ==
    IF n < 10 THEN <<DigitChar[n + 1]>>
    ELSE DecimalStr(n \div 10) \o <<DigitChar[(n % 10) + 1]>>

\* LearningResourceOutput(type, name, link, description, isFree=True[, estimatedTime])
LearningResourceOutput(type, name, link, description, estimatedTime) ==
    [type |-> type, name |-> name, link |-> link, rating |-> None,
     description |-> description, isFree |-> TRUE, estimatedTime |-> estimatedTime]

\* SubTopic(title, description, resources)
SubTopic(title, description, resources) ==
    [title |-> title, description |-> description, resources |-> resources]

\* LearningModuleOutput; the four Optional fields default to None
LearningModuleOutput(id, title, timeline, difficulty, description, topics, resources, tips, subtopics, prerequisites, learningObjectives, projects) ==
    [id |-> id, title |-> title, timeline |-> timeline, difficulty |-> difficulty,
     description |-> description, topics |-> topics, resources |-> resources, tips |-> tips,
     subtopics |-> subtopics, prerequisites |-> prerequisites,
     learningObjectives |-> learningObjectives, projects |-> projects]

\* LearningPathOutput
LearningPathOutput(title, description, estimatedTime, modules, niche, overview, prerequisites, intendedAudience, careerOutcomes) ==
    [title |-> title, description |-> description, estimatedTime |-> estimatedTime,
     modules |-> modules, niche |-> niche, overview |-> overview,
     prerequisites |-> prerequisites, intendedAudience |-> intendedAudience,
     careerOutcomes |-> careerOutcomes]

\* DetailedModuleOutput
DetailedModuleOutput(moduleId, subtopics, prerequisites, learningObjectives, projects, detailedDescription) ==
    [moduleId |-> moduleId, subtopics |-> subtopics, prerequisites |-> prerequisites,
     learningObjectives |-> learningObjectives, projects |-> projects,
     detailedDescription |-> detailedDescription]

\* ResourceVerificationOutput
ResourceVerificationOutput(moduleId, resources) ==
    [moduleId |-> moduleId, resources |-> resources]

(***************************************************************************)
(* What the completion service may answer.  A completion either fails      *)
(* (the exception of base_ai_service.py line 61) or returns a value of the *)
(* requested response model; the schema bounds neither the number of       *)
(* modules nor the number of topics from below.                            *)
(***************************************************************************)
\* a completion that returned the value r
Completed(r) == [ok |-> TRUE, value |-> <<r>>]

\* a completion that failed (network, provider or schema validation)
Failed == [ok |-> FALSE, value |-> <<>>]

\* the outcomes of one completion call with the given successful answers
Outcomes(responses) == {Failed} \cup {Completed(r) : r \in responses}

\* the j-th topic label a Stage 1 module may carry: "Web API j"
Topic(j) == <<"W","e","b"," ","A","P","I"," ">> \o DecimalStr(j)

\* a topic list of length len
TopicList(len) == [j \in 1..len |-> Topic(j)]

\* the lengths of the topic lists in the model: none, one, the most
TopicCounts == {0, 1, MaxTopics}

\* ids the completion numbers its modules with: 1..n, or n..1
IdSchemes == {"ascending", "descending"}

UnitId(scheme, k, n) == IF scheme = "ascending" THEN k ELSE n + 1 - k

\* the k-th module of a Stage 1 answer
Stage1Unit(k, id, topics) ==
    LearningModuleOutput(id,
        <<"S1 title ">> \o DecimalStr(k), <<"S1 timeline">>, <<"S1 difficulty">>,
        <<"S1 description ">> \o DecimalStr(k), topics,
        << LearningResourceOutput(<<"course">>, <<"S1 resource ">> \o DecimalStr(k),
                                  <<"S1 link">>, None, None) >>,
        <<"S1 tips ">> \o DecimalStr(k), None, None, None, None)

\* successful answers to the Stage 1 request (response_model=LearningPathOutput)
Stage1Responses ==
    { LearningPathOutput(<<"S1 path title">>, <<"S1 path description">>, <<"S1 time">>,
          [k \in 1..n |-> Stage1Unit(k, UnitId(scheme, k, n), TopicList(tl[k]))],
          <<"S1 niche">>, Some(<<"S1 overview">>), Some(<< <<"S1 prerequisite">> >>),
          Some(<<"S1 audience">>), Some(<< <<"S1 outcome">> >>)) :
        n \in 0..MaxUnits, scheme \in IdSchemes, tl \in [1..MaxUnits -> TopicCounts] }

RestBasics == <<"R","E","S","T"," ","b","a","s","i","c","s">>

CiCd == <<"C","I"," ","a","n","d"," ","C","D">>

\* a subtopic as the completion service writes it
AISubTopic(title) ==
    SubTopic(title, <<"S2 explanation">>,
             << LearningResourceOutput(<<"article">>, <<"S2 resource">>, <<"S2 link">>,
                                       None, None) >>)

\* subtopic lists of a Stage 2 answer, each with the moduleId the answer carries
\* (the service is free to return no subtopic, and to misnumber moduleId)
Stage2Shapes(module) ==
    { <<module.id, <<>>>>,
      <<module.id + 7, <<AISubTopic(RestBasics), AISubTopic(CiCd)>>>> }

\* successful answers to the Stage 2 request (response_model=DetailedModuleOutput)
Stage2Responses(module) ==
    { DetailedModuleOutput(sh[1], sh[2], << <<"S2 prerequisite">> >>,
          << <<"S2 objective">> >>, << <<"S2 project">> >>,
          <<"S2 description of module ">> \o DecimalStr(module.id)) :
        sh \in Stage2Shapes(module) }

\* successful answers to the Stage 3 request (response_model=ResourceVerificationOutput)
Stage3Responses(module_id) ==
    { ResourceVerificationOutput(module_id,
          << LearningResourceOutput(<<"video">>, <<"S3 resource">>, <<"S3 link">>,
                                    Some(<<"S3 description">>), Some(<<"S3 time">>)) >>) }


(***************************************************************************)
(* Calls that may raise return [exc, value]: exc is the class of the       *)
(* exception that left the call, or NoExc when it returned value[1].       *)
(***************************************************************************)
NoExc == "no exception"

Return(v) == [exc |-> NoExc, value |-> <<v>>]

Raise(e) == [exc |-> e, value |-> <<>>]

\* the classes an `except Exception` clause catches
ExceptionSubclasses == {"Exception", "IndexError"}

\* BaseAIService._make_groq_request: the answer, or Exception(error_msg)
MakeGroqRequest(completion) ==
    IF completion.ok THEN Return(completion.value[1]) ELSE Raise("Exception")

(***************************************************************************)
(* Stage 1: _generate_initial_path                                         *)
(***************************************************************************)
GenerateInitialPath(completion) ==
    LET response == MakeGroqRequest(completion)
    IN  IF response.exc = NoExc THEN response
        ELSE Raise("Exception")

(***************************************************************************)
(* Stage 2: _generate_detailed_module and its except branch                *)
(***************************************************************************)
\* one basic subtopic per topic (lines 437-451)
BasicSubtopic(topic) ==
    SubTopic(topic,
        <<"This subtopic covers ">> \o topic
            \o <<" in detail, providing foundational knowledge and practical applications.">>,
        << LearningResourceOutput(<<"documentation">>,
               <<"Official ">> \o topic \o <<" Documentation">>,
               <<"https://example.org/">> \o Replace(Lower(topic), " ", <<"-">>),
               Some(<<"The official documentation for ">> \o topic), None) >>)

\* the except branch, lines 432-461; module.topics[0] is an IndexError on []
DetailFallback(module) ==
    IF Len(module.topics) = 0 THEN Raise("IndexError")
    ELSE Return(DetailedModuleOutput(module.id,
             [j \in 1..Len(module.topics) |-> BasicSubtopic(module.topics[j])],
             << <<"Basic understanding of programming concepts">> >>,
             [j \in 1..Len(module.topics) |->
                 <<"Understand the fundamentals of ">> \o module.topics[j]],
             << <<"Build a simple project using ">> \o module.topics[1] >>,
             module.description))

GenerateDetailedModule(module, completion) ==
    LET response == MakeGroqRequest(completion)
    IN  IF response.exc = NoExc THEN response
        ELSE DetailFallback(module)

(***************************************************************************)
(* Stage 3: _generate_verified_resources and its except branch             *)
(***************************************************************************)
\* mutant: two resources per subtopic, the video left out
BasicResourcesWithoutVideo(subtopic) ==
    << LearningResourceOutput(<<"documentation">>,
           <<"Official ">> \o subtopic \o <<" Documentation">>,
           <<"https://developer.mozilla.org/en-US/docs/Web/">>
               \o Replace(Lower(subtopic), " ", <<"_">>),
           Some(<<"Comprehensive documentation for ">> \o subtopic),
           Some(<<"1-2 hours">>)),
       LearningResourceOutput(<<"tutorial">>,
           subtopic \o <<" Tutorial for Beginners">>,
           <<"https://www.freecodecamp.org/news/">>
               \o Replace(Lower(subtopic), " ", <<"-">>) \o <<"-tutorial/">>,
           Some(<<"Step-by-step tutorial on ">> \o subtopic \o <<" with practical examples">>),
           Some(<<"3-4 hours">>)) >>

\* the three resources of one subtopic (lines 558-583)
BasicResources(subtopic) ==
    << LearningResourceOutput(<<"documentation">>,
           <<"Official ">> \o subtopic \o <<" Documentation">>,
           <<"https://developer.mozilla.org/en-US/docs/Web/">>
               \o Replace(Lower(subtopic), " ", <<"_">>),
           Some(<<"Comprehensive documentation for ">> \o subtopic),
           Some(<<"1-2 hours">>)),
       LearningResourceOutput(<<"tutorial">>,
           subtopic \o <<" Tutorial for Beginners">>,
           <<"https://www.freecodecamp.org/news/">>
               \o Replace(Lower(subtopic), " ", <<"-">>) \o <<"-tutorial/">>,
           Some(<<"Step-by-step tutorial on ">> \o subtopic \o <<" with practical examples">>),
           Some(<<"3-4 hours">>)),
       LearningResourceOutput(<<"video">>,
           subtopic \o <<" Crash Course">>,
           <<"https://www.youtube.com/results?search_query=">>
               \o Replace(Lower(subtopic), " ", <<"+">>) \o <<"+tutorial">>,
           Some(<<"Video tutorials explaining ">> \o subtopic \o <<" concepts">>),
           Some(<<"1-2 hours">>)) >>

\* the except branch, lines 550-589
ResourceFallback(module_id, subtopics) ==
    Return(ResourceVerificationOutput(module_id,
        Flatten([j \in 1..Len(subtopics) |-> BasicResources(subtopics[j])])))

GenerateVerifiedResources(module_id, subtopics, completion) ==
    LET response == MakeGroqRequest(completion)
    IN  IF response.exc = NoExc THEN response
        ELSE ResourceFallback(module_id, subtopics)


(***************************************************************************)
(* The framework fallback: _create_fallback_learning_path                  *)
(***************************************************************************)
experience == <<"e","x","p","e","r","i","e","n","c","e">>

advanced == <<"a","d","v","a","n","c","e","d">>

expert == <<"e","x","p","e","r","t">>

intermediate == <<"i","n","t","e","r","m","e","d","i","a","t","e">>

\* mutant: the loop without its break, the last matching entry decides
ExperienceLevelLastEntry(answers) ==
    LET hits == {k \in 1..Len(answers) : Contains(Lower(answers[k][1]), experience)}
    IN  IF hits = {} THEN "beginner"
        ELSE LET last == CHOOSE k \in hits : \A h \in hits : k >= h
                 value == Lower(answers[last][2])
             IN  IF Contains(value, advanced) \/ Contains(value, expert) THEN "advanced"
                 ELSE IF Contains(value, intermediate) THEN "intermediate"
                 ELSE "beginner"

\* lines 602-610: the first entry whose key contains "experience" decides
ExperienceLevel(answers) ==
    LET hits == {k \in 1..Len(answers) : Contains(Lower(answers[k][1]), experience)}
    IN  IF hits = {} THEN "beginner"
        ELSE LET first == CHOOSE k \in hits : \A h \in hits : k <= h
                 value == Lower(answers[first][2])
             IN  IF Contains(value, advanced) \/ Contains(value, expert) THEN "advanced"
                 ELSE IF Contains(value, intermediate) THEN "intermediate"
                 ELSE "beginner"

\* niche_name.lower().replace(' ', sep)
Slug(niche_name, sep) == Replace(Lower(niche_name), " ", sep)

\* A resource of a canned module: isFree=True, no rating, no estimatedTime
CannedResource(type, name, link, description) ==
    LearningResourceOutput(type, name, link, Some(description), None)

\* lines 617-650
FundamentalsModule(id, niche_name) ==
    LearningModuleOutput(id, niche_name \o <<" Fundamentals">>, <<"2-4 weeks">>, <<"Beginner">>,
        <<"Learn the core concepts and fundamentals of ">> \o niche_name
            \o <<" to build a solid foundation.">>,
        << niche_name \o <<" Basics">>, <<"Core Concepts">>, <<"Fundamental Tools">> >>,
        << CannedResource(<<"tutorial">>, niche_name \o <<" for Beginners">>,
               <<"https://www.freecodecamp.org/news/">> \o Slug(niche_name, <<"-">>)
                   \o <<"-for-beginners/">>,
               <<"Comprehensive tutorial covering ">> \o niche_name \o <<" basics">>),
           CannedResource(<<"video">>, niche_name \o <<" Crash Course">>,
               <<"https://www.youtube.com/results?search_query=">> \o Slug(niche_name, <<"+">>)
                   \o <<"+crash+course">>,
               <<"Video tutorial series on ">> \o niche_name),
           CannedResource(<<"documentation">>, niche_name \o <<" Documentation">>,
               <<"https://developer.mozilla.org/en-US/docs/Web">>,
               <<"Official documentation and guides">>) >>,
        <<"Focus on understanding the core principles before moving to more advanced topics.">>,
        None, None, None, None)

\* lines 653-686
IntermediateModule(id, niche_name) ==
    LearningModuleOutput(id, <<"Intermediate ">> \o niche_name \o <<" Concepts">>,
        <<"3-6 weeks">>, <<"Intermediate">>,
        <<"Build on your foundational knowledge with more advanced ">> \o niche_name
            \o <<" concepts and practical applications.">>,
        << <<"Advanced Techniques">>, <<"Best Practices">>, <<"Common Patterns">> >>,
        << CannedResource(<<"course">>, <<"Intermediate ">> \o niche_name,
               <<"https://www.freecodecamp.org/learn/">> \o Slug(niche_name, <<"-">>),
               <<"Free interactive course on intermediate ">> \o niche_name \o <<" concepts">>),
           CannedResource(<<"tutorial">>, niche_name \o <<" Projects">>,
               <<"https://github.com/topics/">> \o Slug(niche_name, <<"-">>),
               <<"Collection of ">> \o niche_name \o <<" projects on GitHub">>),
           CannedResource(<<"video">>, <<"Intermediate ">> \o niche_name \o <<" Tutorials">>,
               <<"https://www.youtube.com/results?search_query=intermediate+">>
                   \o Slug(niche_name, <<"+">>),
               <<"Video tutorials for intermediate ">> \o niche_name \o <<" learners">>) >>,
        <<"Apply what you learn through hands-on projects to solidify your understanding.">>,
        None, None, None, None)

\* lines 690-723
AdvancedModule(id, niche_name) ==
    LearningModuleOutput(id, <<"Advanced ">> \o niche_name \o <<" Mastery">>,
        <<"4-8 weeks">>, <<"Advanced">>,
        <<"Master advanced concepts and specialized areas of ">> \o niche_name
            \o <<" for professional development.">>,
        << <<"Specialized Techniques">>, <<"Performance Optimization">>,
           <<"Industry Best Practices">> >>,
        << CannedResource(<<"course">>, <<"Advanced ">> \o niche_name \o <<" Techniques">>,
               <<"https://www.edx.org/search?q=">> \o Slug(niche_name, <<"+">>),
               <<"Advanced courses on ">> \o niche_name \o <<" that can be audited for free">>),
           CannedResource(<<"github">>, niche_name \o <<" Advanced Examples">>,
               <<"https://github.com/search?q=">> \o Slug(niche_name, <<"+">>) \o <<"+advanced">>,
               <<"Advanced ">> \o niche_name \o <<" examples and projects on GitHub">>),
           CannedResource(<<"community">>, niche_name \o <<" Community Resources">>,
               <<"https://dev.to/t/">> \o Slug(niche_name, <<>>),
               <<"Community articles and discussions on advanced ">> \o niche_name
                   \o <<" topics">>) >>,
        <<"Focus on specializing in areas that align with your career goals and interests.">>,
        None, None, None, None)

\* lines 726-759
PracticalModule(id, niche_name) ==
    LearningModuleOutput(id, <<"Practical ">> \o niche_name \o <<" Projects">>,
        <<"4-8 weeks">>, <<"Varies">>,
        <<"Apply your ">> \o niche_name
            \o <<" knowledge in real-world projects to build a portfolio and gain practical experience.">>,
        << <<"Project Planning">>, <<"Implementation">>, <<"Deployment">>, <<"Testing">> >>,
        << CannedResource(<<"project">>, niche_name \o <<" Project Ideas">>,
               <<"https://github.com/topics/">> \o Slug(niche_name, <<"-">>) \o <<"-projects">>,
               <<"Collection of ">> \o niche_name \o <<" project ideas and examples">>),
           CannedResource(<<"tutorial">>, <<"Project-Based Learning Tutorials">>,
               <<"https://www.freecodecamp.org/news/tag/projects/">>,
               <<"Step-by-step tutorials for building real projects">>),
           CannedResource(<<"community">>, <<"Open Source Projects">>,
               <<"https://goodfirstissue.dev/">>,
               <<"Find beginner-friendly open source projects to contribute to">>) >>,
        <<"Build a portfolio of projects that demonstrate your skills and knowledge.">>,
        None, None, None, None)

\* mutant: each canned module with an id of its own, whichever are chosen
FallbackModulesFixedIds(niche_name, level) ==
    LET m0 == IF level \in {"beginner", "intermediate"}
              THEN <<FundamentalsModule(1, niche_name)>> ELSE <<>>
        m1 == Append(m0, IntermediateModule(2, niche_name))
        m2 == IF level \in {"intermediate", "advanced"}
              THEN Append(m1, AdvancedModule(3, niche_name)) ELSE m1
    IN  Append(m2, PracticalModule(4, niche_name))

\* lines 612-759: the module list, each id being len(modules) + 1 when appended
FallbackModules(niche_name, level) ==
    LET m0 == IF level \in {"beginner", "intermediate"}
              THEN <<FundamentalsModule(1, niche_name)>> ELSE <<>>
        m1 == Append(m0, IntermediateModule(Len(m0) + 1, niche_name))
        m2 == IF level \in {"intermediate", "advanced"}
              THEN Append(m1, AdvancedModule(Len(m1) + 1, niche_name)) ELSE m1
    IN  Append(m2, PracticalModule(Len(m2) + 1, niche_name))

\* _create_fallback_learning_path (lines 591-772)
CreateFallbackLearningPath(niche_name, answers) ==
    LET modules == FallbackModules(niche_name, ExperienceLevel(answers))
    IN  LearningPathOutput(
            <<"Comprehensive ">> \o niche_name \o <<" Learning Path">>,
            <<"A structured learning journey to master ">> \o niche_name
                \o <<" from fundamentals to advanced topics.">>,
            DecimalStr(8 + 4 * Len(modules)) \o <<" weeks">>,
            modules,
            niche_name,
            Some(<<"This learning path will guide you through mastering ">> \o niche_name
                \o <<", starting with fundamental concepts and progressing to advanced techniques and practical applications.">>),
            Some(<< <<"Basic computer skills">>, <<"Determination to learn">>,
                    <<"Regular time commitment">> >>),
            Some(<<"This learning path is designed for individuals interested in learning ">>
                \o niche_name
                \o <<" at their own pace, whether for career development or personal growth.">>),
            Some(<< niche_name \o <<" Developer">>, niche_name \o <<" Specialist">>,
                    <<"Technical Consultant">> >>))


(***************************************************************************)
(* One run of LearningPathAIService.generate_learning_path                 *)
(***************************************************************************)
VARIABLES
    niche_name,         \* argument of generate_learning_path
    answers,            \* argument of generate_learning_path
    pc,                 \* the step the run executes next
    initial_path,       \* Optional: the Stage 1 answer (line 174)
    i,                  \* index of the module the loop of line 179 is at
    detailed_module,    \* Optional: the Stage 2 value of module i (line 184)
    enhanced_modules,   \* the list built by line 219
    result,             \* Optional: the value generate_learning_path returned
    raised,             \* class of the exception that left generate_learning_path
    calls               \* history: the completion calls made, in order

pipelineVars == <<niche_name, answers, pc, initial_path, i, detailed_module,
                  enhanced_modules, result, raised, calls>>

(***************************************************************************)
(* The state of the LearningPathService instance of                        *)
(* app/api/routes/learning_path.py line 24 and of the requests it serves   *)
(***************************************************************************)
VARIABLES
    niches_cache,       \* Optional: self._niches_cache
    questions_cache,    \* self._questions_cache, a dict from cache key to questions
    task,               \* the get_questions_for_niche coroutines, by task number
    running,            \* the task the event loop is executing, 0 when it is free
    started,            \* history: number of get_questions_for_niche calls made
    ai_calls,           \* history: completion calls made for questions, by niche id
    first_questions     \* history: Optional, by niche id: the questions the first
                        \* completion call (or its fallback) for the niche produced

catalogVars == <<niches_cache, questions_cache, task, running, started, ai_calls,
                 first_questions>>

(***************************************************************************)
(* The requests the routes of app/api/routes/learning_path.py hand to the  *)
(* service, and what the routes answered                                   *)
(***************************************************************************)
VARIABLES
    request,            \* Optional: the LearningPathRequest of the generate route
    http_error,         \* the HTTPException that left the generate route
    niches_first,       \* history: Optional, the list the first GET /niches returned
    niches_last,        \* history: Optional, the list the latest GET /niches returned
    generated           \* history: number of POST /generate requests made

serviceVars == <<request, http_error, niches_first, niches_last, generated>>

(***************************************************************************)
(* The except branches of the three stages, called on their own            *)
(***************************************************************************)
VARIABLES
    module_in,          \* the module handed to _generate_detailed_module
    subtopics_in,       \* the subtopics handed to _generate_verified_resources
    detail_outputs,     \* history: what each call of the Stage 2 except branch gave
    resource_outputs,   \* history: what each call of the Stage 3 except branch gave
    framework_outputs   \* history: what each call of the framework fallback gave

fallbackVars == <<module_in, subtopics_in, detail_outputs, resource_outputs,
                  framework_outputs>>

(***************************************************************************)
(* Saved learning paths: the documents of the learning_paths collection,   *)
(* the models read from them, and the operations on a saved path           *)
(* (models/learning_path.py, learning_path_repository.py,                  *)
(* learning_path_service.py lines 164-529). A float is a pair <<n, d>>,    *)
(* the number n / d with d > 0.                                            *)
(***************************************************************************)
\* the number of requests on saved paths that are followed
MaxRequests == 2

\* datetime.utcnow(): instants are not told apart
UtcNow == "utcnow"

\* a < b on floats
Less(a, b) == a[1] * b[2] < b[1] * a[2]

\* max(lo, min(hi, x))
Clamp(lo, hi, x) ==
    LET low == IF Less(x, hi) THEN x ELSE hi
    IN  IF Less(lo, low) THEN low ELSE lo

RECURSIVE SumSeq(_)
\* sum(...) over a list of ints
SumSeq(s) == IF s = <<>> THEN 0 ELSE Head(s) + SumSeq(Tail(s))

\* models/learning_resource.py LearningResource (rating and description unset)
LearningResource(type, name, link) == [type |-> type, name |-> name, link |-> link]

\* models/learning_path.py lines 53-72: a module with the tracking fields at
\* their defaults, which is also how a stored LearningModuleCreate dump
\* (schemas lines 42-53) reads; title stands for the descriptive fields
\* (timeline, difficulty, description, topics, tips), which no operation reads
\* or changes
LearningModule(id, title, resources) ==
    [id |-> id, title |-> title, resources |-> resources,
     completed |-> FALSE, progress |-> <<0, 1>>, started_at |-> None,
     completed_at |-> None, target_completion_date |-> None, notes |-> None,
     resource_progress |-> <<>>, custom_resources |-> <<>>]

\* models/learning_path.py lines 145-153
ModuleProgressUpdate(module_id, completed, progress, notes, target_completion_date) ==
    [module_id |-> module_id, completed |-> completed, progress |-> progress,
     notes |-> notes, target_completion_date |-> target_completion_date]

\* models/learning_path.py lines 156-165
ResourceProgressUpdate(module_id, resource_id, completed, notes, rating, time_spent_minutes) ==
    [module_id |-> module_id, resource_id |-> resource_id, completed |-> completed,
     notes |-> notes, rating |-> rating, time_spent_minutes |-> time_spent_minutes]

\* a document of the collection (LearningPathInDB, lines 97-120) made of a
\* LearningPathCreate dump; title stands for description, estimatedTime, niche
\* and createdAt. A key the document lacks reads as the default of its field
Document(userId, path_data) ==
    [userId |-> userId, title |-> path_data.title, modules |-> path_data.modules,
     target_completion_date |-> None, custom_notes |-> None,
     updatedAt |-> None, last_accessed |-> None]

\* LearningPathRepository._map_to_learning_path (lines 116-132): the fields
\* that are not handed to LearningPath(...) take the defaults of lines 106-109
\* and 137
MapToLearningPath(id, path_db) ==
    [id |-> id, userId |-> path_db.userId, title |-> path_db.title,
     modules |-> path_db.modules, updatedAt |-> path_db.updatedAt,
     target_completion_date |-> None, custom_notes |-> None, last_accessed |-> None]

\* repository lines 70-74: update_data["updatedAt"] = datetime.utcnow(), then
\* {"$set": update_data}
SetFields(path_db, update_data) ==
    [f \in DOMAIN path_db \cup DOMAIN update_data \cup {"updatedAt"} |->
        IF f = "updatedAt" THEN Some(UtcNow)
        ELSE IF f \in DOMAIN update_data THEN update_data[f] ELSE path_db[f]]

\* the index of the first module with the id, 0 when there is none (the for
\* loops of lines 241-242, 301-302 and 386-387 with their break)
FindModule(modules, module_id) ==
    LET hits == {k \in 1..Len(modules) : modules[k].id = module_id}
    IN  IF hits = {} THEN 0 ELSE CHOOSE k \in hits : \A h \in hits : k <= h

\* mutant: marking a module incomplete leaves completed_at as it is
ModuleWithProgressKeepingDate(module, u) ==
    LET m1 == IF IsNone(u.completed) THEN module
              ELSE [module EXCEPT
                      !.completed = The(u.completed),
                      !.completed_at = IF The(u.completed) /\ IsNone(@)
                                       THEN Some(UtcNow) ELSE @]
        m2 == IF IsNone(u.progress) THEN m1
              ELSE LET p == Clamp(<<0, 1>>, <<100, 1>>, The(u.progress))
                   IN  [m1 EXCEPT
                          !.progress = p,
                          !.started_at = IF Less(<<0, 1>>, p) /\ IsNone(@)
                                         THEN Some(UtcNow) ELSE @]
        m3 == IF IsNone(u.notes) THEN m2 ELSE [m2 EXCEPT !.notes = u.notes]
    IN  IF IsNone(u.target_completion_date) THEN m3
        ELSE [m3 EXCEPT !.target_completion_date = u.target_completion_date]

\* update_module_progress lines 245-264: the found module after the update
ModuleWithProgress(module, u) ==
    LET m1 == IF IsNone(u.completed) THEN module
              ELSE [module EXCEPT
                      !.completed = The(u.completed),
                      !.completed_at = IF The(u.completed) /\ IsNone(@)
                                       THEN Some(UtcNow)
                                       ELSE IF ~The(u.completed) THEN None ELSE @]
        m2 == IF IsNone(u.progress) THEN m1
              ELSE LET p == Clamp(<<0, 1>>, <<100, 1>>, The(u.progress))
                   IN  [m1 EXCEPT
                          !.progress = p,
                          !.started_at = IF Less(<<0, 1>>, p) /\ IsNone(@)
                                         THEN Some(UtcNow) ELSE @]
        m3 == IF IsNone(u.notes) THEN m2 ELSE [m2 EXCEPT !.notes = u.notes]
    IN  IF IsNone(u.target_completion_date) THEN m3
        ELSE [m3 EXCEPT !.target_completion_date = u.target_completion_date]

\* update_resource_progress lines 305-351: the found module after the update;
\* a new entry is LearningResourceProgress(resource_id=...) of lines 319-321
ModuleWithResourceProgress(module, u) ==
    LET hits == {j \in 1..Len(module.resource_progress) :
                    module.resource_progress[j].resource_id = u.resource_id}
        listed == IF hits = {}
                  THEN Append(module.resource_progress,
                              [resource_id |-> u.resource_id, completed |-> FALSE,
                               completed_at |-> None, notes |-> None, rating |-> None,
                               time_spent_minutes |-> None])
                  ELSE module.resource_progress
        j == IF hits = {} THEN Len(listed)
             ELSE CHOOSE k \in hits : \A h \in hits : k <= h
        rp1 == IF IsNone(u.completed) THEN listed[j]
               ELSE [listed[j] EXCEPT
                       !.completed = The(u.completed),
                       !.completed_at = IF The(u.completed) THEN Some(UtcNow) ELSE None]
        rp2 == IF IsNone(u.notes) THEN rp1 ELSE [rp1 EXCEPT !.notes = u.notes]
        rp3 == IF IsNone(u.rating) THEN rp2
               ELSE [rp2 EXCEPT !.rating =
                        Some(IF The(u.rating) > 5 THEN 5
                             ELSE IF The(u.rating) < 1 THEN 1 ELSE The(u.rating))]
        rp4 == IF IsNone(u.time_spent_minutes) THEN rp3
               ELSE [rp3 EXCEPT !.time_spent_minutes =
                        Some(IF The(u.time_spent_minutes) < 0 THEN 0
                             ELSE The(u.time_spent_minutes))]
        resource_progress == [listed EXCEPT ![j] = rp4]
        completed_resources ==
            Cardinality({n \in 1..Len(resource_progress) : resource_progress[n].completed})
        total_resources == Len(module.resources) + Len(module.custom_resources)
        m1 == [module EXCEPT !.resource_progress = resource_progress]
    IN  IF total_resources > 0
        THEN LET m2 == [m1 EXCEPT !.progress =
                           <<completed_resources * 100, total_resources>>]
             IN  IF completed_resources = total_resources
                 THEN [m2 EXCEPT !.completed = TRUE,
                                 !.completed_at = IF IsNone(@) THEN Some(UtcNow) ELSE @]
                 ELSE m2
        ELSE m1

\* calculate_path_stats lines 424-503. Instants are not told apart, so no
\* completion takes a day (line 469) and average_module_completion_days stays
\* unset; the two dates are kept as set or unset
CalculatePathStats(learning_path) ==
    LET modules == learning_path.modules
        total_modules == Len(modules)
        completed_modules == Cardinality({k \in 1..Len(modules) : modules[k].completed})
        rps(k) == modules[k].resource_progress
        last_activities ==
            {k \in 1..Len(modules) :
                \/ ~IsNone(modules[k].completed_at)
                \/ \E n \in 1..Len(rps(k)) : ~IsNone(rps(k)[n].completed_at)}
    IN  [total_modules |-> total_modules,
         completed_modules |-> completed_modules,
         total_resources |->
            SumSeq([k \in 1..Len(modules) |->
                       Len(modules[k].resources) + Len(modules[k].custom_resources)]),
         completed_resources |->
            SumSeq([k \in 1..Len(modules) |->
                       Cardinality({n \in 1..Len(rps(k)) : rps(k)[n].completed})]),
         total_time_spent_minutes |->
            SumSeq([k \in 1..Len(modules) |->
                       SumSeq([n \in 1..Len(rps(k)) |->
                                  IF IsNone(rps(k)[n].time_spent_minutes) THEN 0
                                  ELSE The(rps(k)[n].time_spent_minutes)])]),
         average_module_completion_days |-> None,
         estimated_completion_date |->
            IF completed_modules < total_modules THEN Some(UtcNow) ELSE None,
         last_activity_date |->
            IF ~IsNone(learning_path.last_accessed) \/ last_activities # {}
            THEN Some(UtcNow) ELSE None]

\* datetime.fromisoformat of a string given as <<local time>> or
\* <<local time, offset>>; anything else is a ValueError
FromIsoFormat(s) ==
    IF Len(s) = 1 /\ s[1] = "2026-12-31T00:00:00"
    THEN Return([local |-> s[1], utcoffset |-> None])
    ELSE IF Len(s) = 2 /\ s[1] = "2026-12-31T00:00:00" /\ s[2] = "+00:00"
    THEN Return([local |-> s[1], utcoffset |-> Some(0)])
    ELSE Raise("ValueError")

\* mutant: a route without its ownership check
NotAuthorizedNever(path, current_user) == FALSE

\* `str(path.userId) != str(current_user.id)` of the routes (e.g. line 83)
NotAuthorized(path, current_user) == path.userId # current_user

\* the users and the ids of the model: one saved path, owned by Owner, and a
\* well-formed id that names no path
Owner == "user-1"

Stranger == "user-2"

SavedId == "path-1"

AbsentId == "path-2"

\* ObjectId.is_valid(id)
ObjectIdIsValid(id) == id \in {SavedId, AbsentId}

\* the LearningPathCreate dump handed to POST /save: module 1 with one
\* resource, module 2 with two
SavedPathData ==
    [title |-> "Saved path",
     modules |->
        << LearningModule(1, "Module 1",
                          <<LearningResource("video", "Resource A", "https://a.example")>>),
           LearningModule(2, "Module 2",
                          <<LearningResource("video", "Resource A", "https://a.example"),
                            LearningResource("article", "Resource B", "https://b.example")>>) >>]

\* a request: the route function, the authenticated caller, the path id of
\* the URL and the body or query argument of the route
PathRequest(route, current_user, path_id, argument) ==
    [route |-> route, current_user |-> current_user, path_id |-> path_id,
     argument |-> argument]

\* the progress operations of the owner on the saved path: completing a
\* module, reopening it with a progress above 100, a progress inside the
\* range, one below 0, a module id the path lacks; resource progress, whose
\* resource_id is any string; a custom resource (CustomResourceAdd, lines
\* 168-173); and one progress operation of a stranger
ProgressRequests ==
    { PathRequest("update_module_progress", Owner, SavedId, [progress_update |-> u]) :
        u \in { ModuleProgressUpdate(1, Some(TRUE), None, None, None),
                ModuleProgressUpdate(1, Some(FALSE), Some(<<150, 1>>), None, None),
                ModuleProgressUpdate(2, None, Some(<<40, 1>>), Some("module note"), None),
                ModuleProgressUpdate(2, Some(TRUE), Some(<<-5, 1>>), None, None),
                ModuleProgressUpdate(3, Some(TRUE), None, None, None) } }
    \cup
    { PathRequest("update_resource_progress", Owner, SavedId, [progress_update |-> u]) :
        u \in { ResourceProgressUpdate(1, "a", Some(TRUE), None, Some(7), Some(-3)),
                ResourceProgressUpdate(1, "b", Some(TRUE), Some("resource note"), None, None),
                ResourceProgressUpdate(2, "a", Some(FALSE), None, Some(0), Some(30)) } }
    \cup
    { PathRequest("add_custom_resource", Owner, SavedId,
                  [custom_resource |->
                      [module_id |-> 2,
                       resource |-> LearningResource("book", "Resource C", "https://c.example")]]),
      PathRequest("update_module_progress", Stranger, SavedId,
                  [progress_update |-> ModuleProgressUpdate(1, Some(TRUE), None, None, None)]) }

\* every route on a path id, with one argument each
RoutesById(current_user, path_id) ==
    { PathRequest("get_learning_path", current_user, path_id, [nothing |-> TRUE]),
      PathRequest("update_learning_path", current_user, path_id,
                  [update_data |->
                      [title |-> "Replaced path",
                       modules |-> << LearningModule(1, "Module 1", <<>>) >>]]),
      PathRequest("delete_learning_path", current_user, path_id, [nothing |-> TRUE]),
      PathRequest("update_module_progress", current_user, path_id,
                  [progress_update |-> ModuleProgressUpdate(1, Some(TRUE), None, None, None)]),
      PathRequest("update_resource_progress", current_user, path_id,
                  [progress_update |->
                      ResourceProgressUpdate(1, "a", Some(TRUE), None, None, None)]),
      PathRequest("add_custom_resource", current_user, path_id,
                  [custom_resource |->
                      [module_id |-> 2,
                       resource |-> LearningResource("book", "Resource C", "https://c.example")]]),
      PathRequest("get_learning_path_stats", current_user, path_id, [nothing |-> TRUE]),
      PathRequest("update_path_notes", current_user, path_id,
                  [notes |-> "remember the basics"]),
      PathRequest("update_target_completion_date", current_user, path_id,
                  [target_date |-> <<"2026-12-31T00:00:00", "Z">>]) }

\* the requests of the access model: each route by a stranger, the routes
\* that read or write path-level fields by the owner, a target date that is
\* no date, and ids that name no path
AccessRequests ==
    RoutesById(Stranger, SavedId)
    \cup { r \in RoutesById(Owner, SavedId) :
             r.route \in {"get_learning_path", "update_learning_path",
                          "delete_learning_path", "get_learning_path_stats",
                          "update_path_notes", "update_target_completion_date"} }
    \cup { PathRequest("update_target_completion_date", Owner, SavedId,
                       [target_date |-> <<"tomorrow">>]),
           PathRequest("get_learning_path", Owner, AbsentId, [nothing |-> TRUE]),
           PathRequest("update_path_notes", Owner, "not-an-object-id",
                       [notes |-> "remember the basics"]) }

\* the module id a progress request names
ModuleIdOf(r) ==
    IF r.route = "add_custom_resource" THEN r.argument.custom_resource.module_id
    ELSE r.argument.progress_update.module_id

\* lines 239-272, 297-359, 384-402: the modules with the first module of the
\* id changed by the progress operation of request r, or the 404 of a module
\* that is not found
ChangedModules(learning_path, r) ==
    LET modules == learning_path.modules
        k == FindModule(modules, ModuleIdOf(r))
    IN  IF k = 0 THEN Raise("HTTPException 404")
        ELSE Return([modules EXCEPT ![k] =
                IF r.route = "update_module_progress"
                THEN ModuleWithProgress(@, r.argument.progress_update)
                ELSE IF r.route = "update_resource_progress"
                THEN ModuleWithResourceProgress(@, r.argument.progress_update)
                ELSE [@ EXCEPT !.custom_resources =
                         Append(@, r.argument.custom_resource.resource)]])

\* a handler that has answered
Responded(r, status, body) ==
    [pc |-> "done", request |-> Some(r), update_data |-> None,
     status |-> status, body |-> Some(body)]

\* a handler suspended in an await on the database
Awaiting(r, at, update_data) ==
    [pc |-> at, request |-> Some(r), update_data |-> update_data,
     status |-> 0, body |-> None]

(***************************************************************************)
(* The learning_paths collection and the requests on saved paths           *)
(***************************************************************************)
VARIABLES
    path_collection,    \* the collection: Optional document, by ObjectId
    handler             \* the route handlers on the event loop, by request number

savedVars == <<path_collection, handler>>

vars == <<pipelineVars, catalogVars, serviceVars, fallbackVars, savedVars>>

\* what a step of generate_learning_path in the AI service leaves alone
notPipeline == <<catalogVars, serviceVars, fallbackVars, savedVars>>

\* what a step of get_questions_for_niche leaves alone
notCatalog == <<pipelineVars, serviceVars, fallbackVars, savedVars>>

\* mutant: no handler around the body of the loop
CaughtAt214Nothing(e) == FALSE

\* `except Exception as e` of line 214
CaughtAt214(e) == e \in ExceptionSubclasses

\* mutant: the outer handler written as `except IndexError`
CaughtAt235IndexErrorOnly(e) == e = "IndexError"

\* `except Exception as e` of line 235
CaughtAt235(e) == e \in ExceptionSubclasses

\* mutant: the module id taken from the Stage 2 answer (moduleId)
EnhancedModuleWithDetailId(module, detailed, verified_resources) ==
    LearningModuleOutput(detailed.moduleId, module.title, module.timeline, module.difficulty,
        detailed.detailedDescription, module.topics, verified_resources.resources,
        module.tips, Some(detailed.subtopics), Some(detailed.prerequisites),
        Some(detailed.learningObjectives), Some(detailed.projects))

\* mutant: the coarse Stage 1 resources kept in place of the verified ones
EnhancedModuleKeepingResources(module, detailed, verified_resources) ==
    LearningModuleOutput(module.id, module.title, module.timeline, module.difficulty,
        detailed.detailedDescription, module.topics, module.resources,
        module.tips, Some(detailed.subtopics), Some(detailed.prerequisites),
        Some(detailed.learningObjectives), Some(detailed.projects))

\* mutant: the Stage 1 description kept in the enhanced module
EnhancedModuleKeepingDescription(module, detailed, verified_resources) ==
    LearningModuleOutput(module.id, module.title, module.timeline, module.difficulty,
        module.description, module.topics, verified_resources.resources,
        module.tips, Some(detailed.subtopics), Some(detailed.prerequisites),
        Some(detailed.learningObjectives), Some(detailed.projects))

\* lines 199-212: the module built from the unit, its detail and its resources
EnhancedModule(module, detailed, verified_resources) ==
    LearningModuleOutput(module.id, module.title, module.timeline, module.difficulty,
        detailed.detailedDescription, module.topics, verified_resources.resources,
        module.tips, Some(detailed.subtopics), Some(detailed.prerequisites),
        Some(detailed.learningObjectives), Some(detailed.projects))

\* mutant: Stage 3 always asked about the unit's topics
SubtopicsForTopicsOnly(module, detailed) == module.topics

\* line 195: the subtopic titles, or the unit's topics when there is no subtopic
SubtopicsFor(module, detailed) ==
    IF Len(detailed.subtopics) > 0
    THEN [j \in 1..Len(detailed.subtopics) |-> detailed.subtopics[j].title]
    ELSE module.topics

\* the record of one completion call: stage, index of the unit (0 for Stage 1)
\* and what the completion service did: whether it answered, and its answer;
\* for Stage 3 also the subtopics argument of the request (line 195)
Call(stage, unit, completion, subtopics) ==
    [stage |-> stage, unit |-> unit, ok |-> completion.ok, value |-> completion.value,
     subtopics |-> subtopics]

\* where an exception raised inside the outer try block goes
Propagate(e) ==
    IF CaughtAt235(e)
    THEN pc' = "fallback" /\ raised' = raised
    ELSE pc' = "done" /\ raised' = e

\* the step after module k of n is appended (line 219): next module, or line 223
AfterModule(k, n) == IF k < n THEN "detail" ELSE "merge"

PipelineInit ==
    /\ \E arguments \in GenerateArguments :
         /\ niche_name = arguments[1]
         /\ answers = arguments[2]
    /\ pc = "framework"
    /\ initial_path = None
    /\ i = 0
    /\ detailed_module = None
    /\ enhanced_modules = <<>>
    /\ result = None
    /\ raised = NoExc
    /\ calls = <<>>

\* lines 172-177: Stage 1
RequestFramework ==
    /\ UNCHANGED notPipeline
    /\ pc = "framework"
    /\ \E completion \in Outcomes(Stage1Responses) :
         LET r == GenerateInitialPath(completion)
         IN  /\ calls' = Append(calls, Call(1, 0, completion, <<>>))
             /\ IF r.exc = NoExc
                THEN /\ initial_path' = Some(r.value[1])
                     /\ i' = 1
                     /\ pc' = AfterModule(0, Len(r.value[1].modules))
                     /\ raised' = raised
                ELSE /\ Propagate(r.exc)
                     /\ UNCHANGED <<initial_path, i>>
    /\ UNCHANGED <<niche_name, answers, detailed_module, enhanced_modules, result>>

\* mutant: a failed Stage 2 request is made once more
RequestDetailRetrying ==
    /\ UNCHANGED notPipeline
    /\ pc = "detail"
    /\ LET path == The(initial_path)
           module == path.modules[i]
       IN  \E completion \in Outcomes(Stage2Responses(module)) :
             LET r == GenerateDetailedModule(module, completion)
             IN  /\ calls' = Append(calls, Call(2, i, completion, <<>>))
                 /\ IF ~completion.ok /\ Cardinality({n \in 1..Len(calls) :
                                            calls[n].stage = 2 /\ calls[n].unit = i}) < 2
                    THEN UNCHANGED <<detailed_module, pc, enhanced_modules, i, raised>>
                    ELSE IF r.exc = NoExc
                    THEN /\ detailed_module' = Some(r.value[1])
                         /\ pc' = "resources"
                         /\ UNCHANGED <<enhanced_modules, i, raised>>
                    ELSE IF CaughtAt214(r.exc)
                    THEN /\ enhanced_modules' = Append(enhanced_modules, module)
                         /\ i' = i + 1
                         /\ pc' = AfterModule(i, Len(path.modules))
                         /\ UNCHANGED <<detailed_module, raised>>
                    ELSE /\ Propagate(r.exc)
                         /\ UNCHANGED <<detailed_module, enhanced_modules, i>>
    /\ UNCHANGED <<niche_name, answers, initial_path, result>>

\* lines 179-189 and, when Stage 2 raises, lines 214-220
RequestDetail ==
    /\ UNCHANGED notPipeline
    /\ pc = "detail"
    /\ LET path == The(initial_path)
           module == path.modules[i]
       IN  \E completion \in Outcomes(Stage2Responses(module)) :
             LET r == GenerateDetailedModule(module, completion)
             IN  /\ calls' = Append(calls, Call(2, i, completion, <<>>))
                 /\ IF r.exc = NoExc
                    THEN /\ detailed_module' = Some(r.value[1])
                         /\ pc' = "resources"
                         /\ UNCHANGED <<enhanced_modules, i, raised>>
                    ELSE IF CaughtAt214(r.exc)
                    THEN /\ enhanced_modules' = Append(enhanced_modules, module)
                         /\ i' = i + 1
                         /\ pc' = AfterModule(i, Len(path.modules))
                         /\ UNCHANGED <<detailed_module, raised>>
                    ELSE /\ Propagate(r.exc)
                         /\ UNCHANGED <<detailed_module, enhanced_modules, i>>
    /\ UNCHANGED <<niche_name, answers, initial_path, result>>

\* lines 191-212 and 219-220: Stage 3, then the enhanced module is appended
RequestResources ==
    /\ UNCHANGED notPipeline
    /\ pc = "resources"
    /\ LET path == The(initial_path)
           module == path.modules[i]
           detailed == The(detailed_module)
       IN  \E completion \in Outcomes(Stage3Responses(module.id)),
              subtopics \in {SubtopicsFor(module, detailed)} :
             \E r \in {GenerateVerifiedResources(module.id, subtopics, completion)} :
                 /\ calls' = Append(calls, Call(3, i, completion, subtopics))
                 /\ IF r.exc = NoExc
                    THEN /\ enhanced_modules' =
                              Append(enhanced_modules,
                                     EnhancedModule(module, detailed, r.value[1]))
                         /\ i' = i + 1
                         /\ pc' = AfterModule(i, Len(path.modules))
                         /\ raised' = raised
                    ELSE IF CaughtAt214(r.exc)
                    THEN /\ enhanced_modules' = Append(enhanced_modules, module)
                         /\ i' = i + 1
                         /\ pc' = AfterModule(i, Len(path.modules))
                         /\ raised' = raised
                    ELSE /\ Propagate(r.exc)
                         /\ UNCHANGED <<enhanced_modules, i>>
    /\ detailed_module' = None
    /\ UNCHANGED <<niche_name, answers, initial_path, result>>

\* lines 223-233: the draft is assembled from the Stage 1 path-level fields
Merge ==
    /\ UNCHANGED notPipeline
    /\ pc = "merge"
    /\ LET path == The(initial_path)
       IN  result' = Some(LearningPathOutput(path.title, path.description,
                              path.estimatedTime, enhanced_modules, path.niche,
                              path.overview, path.prerequisites,
                              path.intendedAudience, path.careerOutcomes))
    /\ pc' = "done"
    /\ UNCHANGED <<niche_name, answers, initial_path, i, detailed_module,
                   enhanced_modules, raised, calls>>

\* mutant: the units of the framework fallback are sent through the loop
FrameworkFallbackIntoUnits ==
    /\ UNCHANGED notPipeline
    /\ pc = "fallback"
    /\ initial_path' = Some(CreateFallbackLearningPath(niche_name, answers))
    /\ i' = 1
    /\ pc' = "detail"
    /\ UNCHANGED <<niche_name, answers, detailed_module, enhanced_modules, result,
                   raised, calls>>

\* mutant: the fallback path built without the answers
FrameworkFallbackWithoutAnswers ==
    /\ UNCHANGED notPipeline
    /\ pc = "fallback"
    /\ result' = Some(CreateFallbackLearningPath(niche_name, <<>>))
    /\ pc' = "done"
    /\ UNCHANGED <<niche_name, answers, initial_path, i, detailed_module,
                   enhanced_modules, raised, calls>>

\* lines 235-238: the whole process failed, the basic path is returned
FrameworkFallback ==
    /\ UNCHANGED notPipeline
    /\ pc = "fallback"
    /\ result' = Some(CreateFallbackLearningPath(niche_name, answers))
    /\ pc' = "done"
    /\ UNCHANGED <<niche_name, answers, initial_path, i, detailed_module,
                   enhanced_modules, raised, calls>>

(***************************************************************************)
(* The catalog: LearningPathService.get_all_niches and                     *)
(* get_questions_for_niche with their caches                               *)
(***************************************************************************)
\* the names of the niches of lines 40-69, by id
NicheNameTable ==
    <<
       <<"F","r","o","n","t","e","n","d"," ","D","e","v","e","l","o","p","m","e","n","t">>,
       <<"B","a","c","k","e","n","d"," ","D","e","v","e","l","o","p","m","e","n","t">>,
       <<"F","u","l","l"," ","S","t","a","c","k"," ","D","e","v","e","l","o","p","m","e","n","t">>,
       <<"M","o","b","i","l","e"," ","A","p","p"," ","D","e","v","e","l","o","p","m","e","n","t">>,
       <<"D","a","t","a"," ","S","c","i","e","n","c","e">>,
       <<"M","a","c","h","i","n","e"," ","L","e","a","r","n","i","n","g">>,
       <<"D","e","v","O","p","s">>,
       <<"C","y","b","e","r","s","e","c","u","r","i","t","y">>,
       <<"C","l","o","u","d"," ","C","o","m","p","u","t","i","n","g">>,
       <<"G","a","m","e"," ","D","e","v","e","l","o","p","m","e","n","t">>,
       <<"U","I","/","U","X"," ","D","e","s","i","g","n">>,
       <<"B","l","o","c","k","c","h","a","i","n"," ","D","e","v","e","l","o","p","m","e","n","t">>,
       <<"A","I","/","A","r","t","i","f","i","c","i","a","l"," ","I","n","t","e","l","l","i","g","e","n","c","e">>,
       <<"Q","u","a","l","i","t","y"," ","A","s","s","u","r","a","n","c","e">>,
       <<"P","r","o","d","u","c","t"," ","M","a","n","a","g","e","m","e","n","t">> >>

\* Niche(id, name, icon, description); icon and description are display text
\* that the service never reads, and are left out
Niche(id) == [id |-> id, name |-> NicheNameTable[id]]

\* the list of lines 39-70
StaticNiches == [id \in 1..15 |-> Niche(id)]

\* PathQuestion(id, label, options)
PathQuestion(id, label, options) == [id |-> id, label |-> label, options |-> options]

\* LearningPathAIService._generate_fallback_questions (lines 87-153)
GenerateFallbackQuestions(name) ==
    << PathQuestion(<<"experience_level">>,
           <<"What is your current experience level in ">> \o name \o <<"?">>,
           << <<"Complete beginner with no experience">>,
              <<"Beginner with some basic knowledge">>,
              <<"Intermediate with practical experience">>,
              <<"Advanced with significant experience">>,
              <<"Expert looking to specialize further">> >>),
       PathQuestion(<<"learning_goal">>,
           <<"What is your primary goal for learning about ">> \o name \o <<"?">>,
           << <<"Career transition into this field">>,
              <<"Skill enhancement for current role">>,
              <<"Personal interest and growth">>,
              <<"Academic requirement or research">>,
              <<"Entrepreneurial venture or project">> >>),
       PathQuestion(<<"time_commitment">>,
           <<"How much time can you commit to learning each week?">>,
           << <<"Less than 5 hours">>, <<"5-10 hours">>, <<"10-20 hours">>,
              <<"20+ hours">>, <<"Flexible/variable schedule">> >>),
       PathQuestion(<<"learning_style">>,
           <<"What learning approach do you prefer?">>,
           << <<"Hands-on projects and practical application">>,
              <<"Video courses and tutorials">>,
              <<"Reading books and documentation">>,
              <<"Interactive exercises and quizzes">>,
              <<"Combination of different methods">> >>),
       PathQuestion(<<"expertise_focus">>,
           <<"Which aspect of ">> \o name \o <<" are you most interested in?">>,
           << <<"Fundamental principles and theory">>,
              <<"Practical implementation and tools">>,
              <<"Advanced techniques and specialization">>,
              <<"Industry best practices and standards">>,
              <<"Innovation and emerging trends">> >>) >>

\* LearningPathService._get_static_questions_for_niche (lines 538-559)
GetStaticQuestionsForNiche(niche_id) ==
    << PathQuestion(<<"static_">> \o DecimalStr(niche_id) \o <<"_1">>,
           <<"What is your current experience level?">>,
           << <<"Complete Beginner">>, <<"Some Experience">>, <<"Intermediate">>,
              <<"Advanced">> >>),
       PathQuestion(<<"static_">> \o DecimalStr(niche_id) \o <<"_2">>,
           <<"How much time can you dedicate per week?">>,
           << <<"1-5 hours">>, <<"5-10 hours">>, <<"10-20 hours">>, <<"20+ hours">> >>),
       PathQuestion(<<"static_">> \o DecimalStr(niche_id) \o <<"_3">>,
           <<"What is your preferred learning style?">>,
           << <<"Video Tutorials">>, <<"Reading Documentation">>,
              <<"Hands-on Projects">>, <<"Interactive Courses">> >>) >>

\* successful answers to the questions request (response_model=NicheQuestionsOutput)
QuestionsResponses ==
    { [questions |-> <<>>],
      [questions |-> << [id |-> <<"ai_goal">>, label |-> <<"AI label">>,
                         options |-> << <<"AI option 1">>, <<"AI option 2">> >>] >>] }

\* mutant: the failure of the completion is raised again
GenerateQuestionsForNicheReraising(name, completion) ==
    LET response == MakeGroqRequest(completion)
    IN  IF response.exc = NoExc
        THEN LET qs == response.value[1].questions
             IN  Return([k \in 1..Len(qs) |->
                            PathQuestion(qs[k].id, qs[k].label, qs[k].options)])
        ELSE Raise(response.exc)

\* LearningPathAIService.generate_questions_for_niche (lines 66-85)
GenerateQuestionsForNiche(name, completion) ==
    LET response == MakeGroqRequest(completion)
    IN  IF response.exc = NoExc
        THEN LET qs == response.value[1].questions
             IN  Return([k \in 1..Len(qs) |->
                            PathQuestion(qs[k].id, qs[k].label, qs[k].options)])
        ELSE Return(GenerateFallbackQuestions(name))

\* mutant: the flag written as "True" whatever it is
BoolStrAlwaysTrue(b) == <<"True">>

\* str(b) inside an f-string
BoolStr(b) == IF b THEN <<"True">> ELSE <<"False">>

\* mutant: the cache key built from the niche id alone
CacheKeyWithoutFlag(niche_id, use_ai) == DecimalStr(niche_id)

\* line 86: cache_key = f"{niche_id}_{use_ai}"
CacheKey(niche_id, use_ai) == DecimalStr(niche_id) \o <<"_">> \o BoolStr(use_ai)

\* mutant: the first niche as the default of next()
FindNicheDefaultFirst(niches, niche_id) ==
    LET hits == {k \in 1..Len(niches) : niches[k].id = niche_id}
    IN  IF hits = {} THEN Some(niches[1])
        ELSE Some(niches[CHOOSE k \in hits : \A h \in hits : k <= h])

\* line 92: next((n for n in niches if n.id == niche_id), None)
FindNiche(niches, niche_id) ==
    LET hits == {k \in 1..Len(niches) : niches[k].id = niche_id}
    IN  IF hits = {} THEN None
        ELSE Some(niches[CHOOSE k \in hits : \A h \in hits : k <= h])


(***************************************************************************)
(* get_questions_for_niche as a coroutine on the event loop.  A coroutine  *)
(* runs until it awaits something that suspends it; only then can the loop *)
(* start or resume another one.                                            *)
(***************************************************************************)
\* largest number of get_questions_for_niche coroutines alive at once
MaxTasks == 2

\* largest number of get_questions_for_niche calls in a behaviour
MaxCalls == 4

Tasks == 1..MaxTasks

\* niche ids the callers pass: the first and the last of the catalog, and the
\* two nearest ids that are not in it
NicheIdInputs == {0, 1, 15, 16}

KnownNicheIds == {StaticNiches[k].id : k \in 1..Len(StaticNiches)}

NoError == "no error"

HTTP_404_NOT_FOUND == "HTTP_404_NOT_FOUND"

\* mutant: the request awaited on an asynchronous client, which suspends the
\* coroutine until the answer arrives
GroqRequestAwaited == TRUE

\* base_ai_service.py lines 49-55: the request is made with the synchronous
\* Groq client (line 3, line 22) and is not awaited, so the await chain of
\* get_questions_for_niche never suspends the coroutine
GroqRequestSuspends == FALSE

IdleTask ==
    [pc |-> "idle", niche_id |-> 0, use_ai |-> FALSE, niche |-> None,
     questions |-> None, ret |-> None, error |-> NoError,
     cache_at_call |-> None, ai_calls_at_call |-> None, completion_ok |-> None]

CatalogInit ==
    /\ niches_cache = None
    /\ questions_cache = <<>>
    /\ task = [t \in Tasks |-> IdleTask]
    /\ running = 0
    /\ started = 0
    /\ ai_calls = [id \in NicheIdInputs |-> 0]
    /\ first_questions = [id \in NicheIdInputs |-> None]

\* no generate_learning_path run is in progress
PipelineIdle ==
    /\ niche_name = <<>>
    /\ answers = <<>>
    /\ pc = "idle"
    /\ initial_path = None
    /\ i = 0
    /\ detailed_module = None
    /\ enhanced_modules = <<>>
    /\ result = None
    /\ raised = NoExc
    /\ calls = <<>>

\* the questions route (routes/learning_path.py lines 33-38) is requested and
\* the loop starts the coroutine
CallQuestionsFor(t, niche_id, use_ai) ==
    /\ running = 0
    /\ task[t].pc = "idle"
    /\ started < MaxCalls
    /\ task' = [task EXCEPT ![t] =
                   [IdleTask EXCEPT !.pc = "check_cache", !.niche_id = niche_id,
                                    !.use_ai = use_ai,
                                    !.cache_at_call = Some(questions_cache),
                                    !.ai_calls_at_call = Some(ai_calls)]]
    /\ running' = t
    /\ started' = started + 1
    /\ UNCHANGED <<niches_cache, questions_cache, ai_calls, first_questions>>
    /\ UNCHANGED notCatalog

\* lines 85-88: a cached entry is returned at once
CheckCache(t) ==
    /\ running = t
    /\ task[t].pc = "check_cache"
    /\ LET cache_key == CacheKey(task[t].niche_id, task[t].use_ai)
       IN  IF cache_key \in DOMAIN questions_cache
           THEN task' = [task EXCEPT ![t].pc = "returned",
                                     ![t].ret = Some(questions_cache[cache_key])]
           ELSE task' = [task EXCEPT ![t].pc = "find_niche"]
    /\ UNCHANGED <<niches_cache, questions_cache, running, started, ai_calls,
                   first_questions>>
    /\ UNCHANGED notCatalog

\* lines 90-98, with get_all_niches (lines 37-72) filling the niches cache
FindNicheStep(t) ==
    /\ running = t
    /\ task[t].pc = "find_niche"
    /\ niches_cache' = IF IsNone(niches_cache) THEN Some(StaticNiches) ELSE niches_cache
    /\ LET niches == The(niches_cache')
           niche == FindNiche(niches, task[t].niche_id)
       IN  IF IsNone(niche)
           THEN task' = [task EXCEPT ![t].pc = "raised",
                                     ![t].error = HTTP_404_NOT_FOUND]
           ELSE task' = [task EXCEPT ![t].pc = "questions", ![t].niche = niche]
    /\ UNCHANGED <<questions_cache, running, started, ai_calls, first_questions>>
    /\ UNCHANGED notCatalog

\* lines 100-101: questions from the completion service or its fallback
GenerateQuestionsWithAI(t) ==
    /\ running = t
    /\ task[t].pc = "questions"
    /\ task[t].use_ai
    /\ LET id == task[t].niche_id
       IN  \E completion \in Outcomes(QuestionsResponses) :
             LET r == GenerateQuestionsForNiche(The(task[t].niche).name, completion)
             IN  /\ ai_calls' = [ai_calls EXCEPT ![id] = @ + 1]
                 /\ first_questions' =
                        IF ai_calls[id] = 0 /\ r.exc = NoExc
                        THEN [first_questions EXCEPT ![id] = Some(r.value[1])]
                        ELSE first_questions
                 /\ IF r.exc = NoExc
                    THEN /\ task' = [task EXCEPT ![t].pc = "store",
                                                 ![t].questions = Some(r.value[1]),
                                                 ![t].completion_ok = Some(completion.ok)]
                         /\ running' = IF GroqRequestSuspends THEN 0 ELSE running
                    ELSE /\ task' = [task EXCEPT ![t].pc = "raised", ![t].error = r.exc,
                                                 ![t].completion_ok = Some(completion.ok)]
                         /\ running' = running
    /\ UNCHANGED <<niches_cache, questions_cache, started>>
    /\ UNCHANGED notCatalog

\* lines 102-103: the static questions
GetStaticQuestions(t) ==
    /\ running = t
    /\ task[t].pc = "questions"
    /\ ~task[t].use_ai
    /\ task' = [task EXCEPT ![t].pc = "store",
                            ![t].questions =
                                Some(GetStaticQuestionsForNiche(task[t].niche_id))]
    /\ UNCHANGED <<niches_cache, questions_cache, running, started, ai_calls,
                   first_questions>>
    /\ UNCHANGED notCatalog

\* lines 105-107: the result is cached and returned; a suspended coroutine is
\* resumed here once the loop is free
StoreQuestions(t) ==
    /\ running \in {0, t}
    /\ task[t].pc = "store"
    /\ LET cache_key == CacheKey(task[t].niche_id, task[t].use_ai)
           questions == The(task[t].questions)
       IN  /\ questions_cache' =
                  [k \in DOMAIN questions_cache \cup {cache_key} |->
                      IF k = cache_key THEN questions ELSE questions_cache[k]]
           /\ task' = [task EXCEPT ![t].pc = "returned", ![t].ret = Some(questions)]
    /\ running' = t
    /\ UNCHANGED <<niches_cache, started, ai_calls, first_questions>>
    /\ UNCHANGED notCatalog

\* the route (routes/learning_path.py line 38) hands the answer or the 404 to
\* the client; the coroutine is gone and the loop is free
Finish(t) ==
    /\ running = t
    /\ task[t].pc \in {"returned", "raised"}
    /\ task' = [task EXCEPT ![t] = IdleTask]
    /\ running' = 0
    /\ UNCHANGED <<niches_cache, questions_cache, started, ai_calls,
                   first_questions>>
    /\ UNCHANGED notCatalog

(***************************************************************************)
(* LearningPathService.get_all_niches behind GET /niches, and              *)
(* LearningPathService.generate_learning_path behind POST /generate        *)
(***************************************************************************)
\* LearningPathRequest(nicheId, customNiche, answers)
LearningPathRequest(nicheId, customNiche, request_answers) ==
    [nicheId |-> nicheId, customNiche |-> customNiche, answers |-> request_answers]

\* the requests of the model: a catalog niche, an empty custom name, a custom
\* name with a catalog id, a custom name with an id that is not in the catalog,
\* and an unknown id alone
GenerateRequests ==
    { LearningPathRequest(7, None, <<>>),
      LearningPathRequest(5, Some(<<>>), << <<experience_level, AdvancedAnswer>> >>),
      LearningPathRequest(1, Some(DataScience),
          << <<learning_goal, CareerAnswer>>, <<experience_level, IntermediateAnswer>> >>),
      LearningPathRequest(16, Some(DevOps), <<>>),
      LearningPathRequest(0, None, <<>>) }

\* the truth value of an Optional[str]: None and "" are false
Truthy(x) == ~IsNone(x) /\ Len(The(x)) > 0

\* lines 37-72: the niches, computed on the first call and cached
GetAllNiches == IF IsNone(niches_cache) THEN StaticNiches ELSE The(niches_cache)

\* the task number of the generate coroutine on the event loop
GenerateTask == MaxTasks + 1

\* no request is being served and no list has been returned yet
ServiceIdle ==
    /\ request = None
    /\ http_error = NoError
    /\ niches_first = None
    /\ niches_last = None
    /\ generated = 0

\* the except branches have not been called on their own
FallbacksIdle ==
    /\ module_in = None
    /\ subtopics_in = <<>>
    /\ detail_outputs = <<>>
    /\ resource_outputs = <<>>
    /\ framework_outputs = <<>>

\* mutant: the caller removes the first niche from the list it was handed,
\* which is the cached list itself
ListNichesPoppingFirst ==
    /\ running = 0
    /\ started < MaxCalls
    /\ niches_cache' = Some(Tail(GetAllNiches))
    /\ niches_last' = Some(GetAllNiches)
    /\ niches_first' = IF IsNone(niches_first) THEN niches_last' ELSE niches_first
    /\ started' = started + 1
    /\ UNCHANGED <<questions_cache, task, running, ai_calls, first_questions>>
    /\ UNCHANGED <<request, http_error, generated>>
    /\ UNCHANGED <<pipelineVars, fallbackVars, savedVars>>

\* GET /niches (routes/learning_path.py lines 26-31): get_all_niches
ListNiches ==
    /\ running = 0
    /\ started < MaxCalls
    /\ niches_cache' = Some(GetAllNiches)
    /\ niches_last' = Some(GetAllNiches)
    /\ niches_first' = IF IsNone(niches_first) THEN niches_last' ELSE niches_first
    /\ started' = started + 1
    /\ UNCHANGED <<questions_cache, task, running, ai_calls, first_questions>>
    /\ UNCHANGED <<request, http_error, generated>>
    /\ UNCHANGED <<pipelineVars, fallbackVars, savedVars>>

\* POST /generate (routes/learning_path.py lines 40-48) is requested and the
\* loop starts the coroutine
GenerateCall(req) ==
    /\ running = 0
    /\ pc = "idle"
    /\ started < MaxCalls
    /\ request' = Some(req)
    /\ pc' = "request"
    /\ running' = GenerateTask
    /\ started' = started + 1
    /\ UNCHANGED <<niche_name, answers, initial_path, i, detailed_module,
                   enhanced_modules, result, raised, calls>>
    /\ UNCHANGED <<niches_cache, questions_cache, task, ai_calls, first_questions>>
    /\ generated' = generated + 1
    /\ UNCHANGED <<http_error, niches_first, niches_last>>
    /\ UNCHANGED <<fallbackVars, savedVars>>

\* learning_path_service.py lines 119-129: the niche of request.nicheId is
\* looked up; an unknown id is a 404, whatever customNiche holds
ResolveNiche ==
    /\ pc = "request"
    /\ niches_cache' = Some(GetAllNiches)
    /\ LET req == The(request)
           niche == FindNiche(GetAllNiches, req.nicheId)
       IN  IF IsNone(niche)
           THEN /\ http_error' = HTTP_404_NOT_FOUND
                /\ pc' = "rejected"
                /\ UNCHANGED <<niche_name, answers>>
           ELSE /\ niche_name' = IF Truthy(req.customNiche) THEN The(req.customNiche)
                                 ELSE The(niche).name
                /\ answers' = req.answers
                /\ pc' = "framework"
                /\ http_error' = http_error
    /\ UNCHANGED <<initial_path, i, detailed_module, enhanced_modules, result,
                   raised, calls>>
    /\ UNCHANGED <<questions_cache, task, running, started, ai_calls, first_questions>>
    /\ UNCHANGED <<request, niches_first, niches_last, generated>>
    /\ UNCHANGED <<fallbackVars, savedVars>>

\* learning_path_service.py lines 131-137 seen from the catalog: the run of
\* the AI service (the behaviours of Spec, whose steps leave the catalog
\* alone) is over, or the 404 was raised; the route answers the client, the
\* coroutine is gone and the loop is free
GenerateReturns ==
    /\ running = GenerateTask
    /\ pc \in {"framework", "rejected"}
    /\ pc' = "idle"
    /\ niche_name' = <<>>
    /\ answers' = <<>>
    /\ request' = None
    /\ http_error' = NoError
    /\ running' = 0
    /\ UNCHANGED <<initial_path, i, detailed_module, enhanced_modules, result,
                   raised, calls>>
    /\ UNCHANGED <<niches_cache, questions_cache, task, started, ai_calls,
                   first_questions>>
    /\ UNCHANGED <<niches_first, niches_last, generated>>
    /\ UNCHANGED <<fallbackVars, savedVars>>

(***************************************************************************)
(* The fallback generators called on their own: the except branch of       *)
(* _generate_detailed_module, the except branch of                         *)
(* _generate_verified_resources, and _create_fallback_learning_path        *)
(***************************************************************************)
\* largest number of fallback calls in a behaviour
MaxFallbackCalls == 3

\* the modules handed to _generate_detailed_module
FallbackModuleInputs ==
    { Stage1Unit(1, id, TopicList(len)) : id \in 1..MaxUnits, len \in TopicCounts }

\* the subtopic lists handed to _generate_verified_resources
FallbackSubtopicInputs ==
    { TopicList(len) : len \in TopicCounts } \cup { <<RestBasics, CiCd>> }

\* the niche names handed to _create_fallback_learning_path
FallbackNicheNames == { <<>>, DevOps, DataScience }

\* the answers handed to _create_fallback_learning_path: those of the runs,
\* the answer to a static question, an expert, and two entries about experience
\* that disagree
FallbackAnswers ==
    { arguments[2] : arguments \in GenerateArguments }
    \cup { << <<static_1_1, StaticAdvancedAnswer>> >>,
           << <<experience_level, ExpertAnswer>> >>,
           << <<learning_goal, CareerAnswer>>,
              <<Prior_Experience, IntermediateAnswer>>,
              <<experience_level, AdvancedAnswer>> >> }

\* number of fallback calls made so far
FallbackCalls == Len(detail_outputs) + Len(resource_outputs) + Len(framework_outputs)

FallbacksInit ==
    /\ module_in \in {Some(m) : m \in FallbackModuleInputs}
    /\ subtopics_in \in FallbackSubtopicInputs
    /\ detail_outputs = <<>>
    /\ resource_outputs = <<>>
    /\ framework_outputs = <<>>

\* mutant: the except branch numbers its descriptions with a call counter
CallDetailFallbackCounting ==
    /\ FallbackCalls < MaxFallbackCalls
    /\ detail_outputs' =
           Append(detail_outputs,
                  GenerateDetailedModule(
                      [The(module_in) EXCEPT
                           !.description = @ \o DecimalStr(Len(detail_outputs))],
                      Failed))
    /\ UNCHANGED <<module_in, subtopics_in, resource_outputs, framework_outputs>>
    /\ UNCHANGED <<pipelineVars, catalogVars, serviceVars, savedVars>>

\* _generate_detailed_module with a completion that fails (lines 432-461)
CallDetailFallback ==
    /\ FallbackCalls < MaxFallbackCalls
    /\ detail_outputs' =
           Append(detail_outputs, GenerateDetailedModule(The(module_in), Failed))
    /\ UNCHANGED <<module_in, subtopics_in, resource_outputs, framework_outputs>>
    /\ UNCHANGED <<pipelineVars, catalogVars, serviceVars, savedVars>>

\* _generate_verified_resources with a completion that fails (lines 550-589)
CallResourceFallback ==
    /\ FallbackCalls < MaxFallbackCalls
    /\ resource_outputs' =
           Append(resource_outputs,
                  GenerateVerifiedResources(The(module_in).id, subtopics_in, Failed))
    /\ UNCHANGED <<module_in, subtopics_in, detail_outputs, framework_outputs>>
    /\ UNCHANGED <<pipelineVars, catalogVars, serviceVars, savedVars>>

\* _create_fallback_learning_path (lines 591-772)
CallFrameworkFallback ==
    /\ FallbackCalls < MaxFallbackCalls
    /\ framework_outputs' =
           Append(framework_outputs, CreateFallbackLearningPath(niche_name, answers))
    /\ UNCHANGED <<module_in, subtopics_in, detail_outputs, resource_outputs>>
    /\ UNCHANGED <<pipelineVars, catalogVars, serviceVars, savedVars>>

(***************************************************************************)
(* Specifications                                                          *)
(***************************************************************************)
\* one run of generate_learning_path
(***************************************************************************)
(* The routes on a saved path (routes/learning_path.py lines 72-270). Each *)
(* await on the database is a step; other requests run between the steps.  *)
(***************************************************************************)
\* LearningPathRepository.get_path_by_id (lines 26-36)
GetPathById(id) ==
    IF ~ObjectIdIsValid(id) THEN None
    ELSE IF IsNone(path_collection[id]) THEN None
    ELSE Some(MapToLearningPath(id, The(path_collection[id])))

\* LearningPathService.get_learning_path (lines 164-185)
GetLearningPath(path_id) ==
    IF IsNone(GetPathById(path_id)) THEN Raise("HTTPException 404")
    ELSE Return(The(GetPathById(path_id)))

\* POST /save has stored SavedPathData for Owner; no request has arrived
SavedPathsInit ==
    /\ path_collection = [id \in {SavedId, AbsentId} |->
                            IF id = SavedId THEN Some(Document(Owner, SavedPathData))
                            ELSE None]
    /\ handler = [t \in 1..MaxRequests |->
                    [pc |-> "idle", request |-> None, update_data |-> None,
                     status |-> 0, body |-> None]]

\* what a route does once its ownership check has passed, up to its next await
Authorized(r, path) ==
    IF r.route = "get_learning_path"
    THEN Responded(r, 200, [path |-> path])
    ELSE IF r.route = "update_learning_path"
    THEN Awaiting(r, "update_one", Some(r.argument.update_data))
    ELSE IF r.route = "delete_learning_path"
    THEN Awaiting(r, "delete_one", None)
    ELSE IF r.route = "update_path_notes"
    THEN Awaiting(r, "update_one",
                  Some([custom_notes |-> Some(r.argument.notes),
                        updatedAt |-> Some(UtcNow)]))
    ELSE IF r.route = "update_target_completion_date"
    THEN LET parsed_date == FromIsoFormat(Replace(r.argument.target_date, "Z", <<"+00:00">>))
         IN  IF parsed_date.exc # NoExc
             THEN Responded(r, 400, [detail |-> "Invalid date format. Please use ISO format (YYYY-MM-DDTHH:MM:SS)"])
             ELSE Awaiting(r, "update_one",
                           Some([target_completion_date |-> parsed_date.value,
                                 updatedAt |-> Some(UtcNow)]))
    ELSE Awaiting(r, "service_get", None)

\* request r arrives as request number t: the route awaits get_learning_path,
\* which raises 404 for an id without a path, then checks the owner and goes
\* on to its next await (e.g. lines 149-160)
RouteRequest(t, r) ==
    /\ handler[t].pc = "idle"
    /\ \A s \in 1..(t - 1) : handler[s].pc # "idle"
    /\ LET path == GetLearningPath(r.path_id)
       IN  handler' = [handler EXCEPT ![t] =
               IF path.exc # NoExc
               THEN Responded(r, 404, [detail |-> "Learning path not found"])
               ELSE IF NotAuthorized(path.value[1], r.current_user)
               THEN Responded(r, 403, [detail |-> "Not authorized"])
               ELSE Authorized(r, path.value[1])]
    /\ UNCHANGED path_collection
    /\ UNCHANGED <<pipelineVars, catalogVars, serviceVars, fallbackVars>>

\* the service method reads the path again (lines 237, 295, 382, 422), changes
\* its copy and goes on to repository.update_path with the update_data of
\* lines 275-279, 362-366 or 405-408; calculate_path_stats answers
ServiceGet(t) ==
    /\ handler[t].pc = "service_get"
    /\ LET r == The(handler[t].request)
           learning_path == GetLearningPath(r.path_id)
       IN  handler' = [handler EXCEPT ![t] =
               IF learning_path.exc # NoExc
               THEN Responded(r, 404, [detail |-> "Learning path not found"])
               ELSE IF r.route = "get_learning_path_stats"
               THEN Responded(r, 200, [stats |-> CalculatePathStats(learning_path.value[1])])
               ELSE LET modules == ChangedModules(learning_path.value[1], r)
                    IN  IF modules.exc # NoExc
                        THEN Responded(r, 404, [detail |-> "Module not found in this learning path"])
                        ELSE IF r.route = "add_custom_resource"
                        THEN Awaiting(r, "update_one",
                                      Some([modules |-> modules.value[1],
                                            updatedAt |-> Some(UtcNow)]))
                        ELSE Awaiting(r, "update_one",
                                      Some([modules |-> modules.value[1],
                                            updatedAt |-> Some(UtcNow),
                                            last_accessed |-> Some(UtcNow)]))]
    /\ UNCHANGED path_collection
    /\ UNCHANGED <<pipelineVars, catalogVars, serviceVars, fallbackVars>>

\* repository.update_path lines 67-74: update_one with $set; a missing
\* document is left missing
UpdateOne(t) ==
    /\ handler[t].pc = "update_one"
    /\ LET r == The(handler[t].request)
       IN  /\ path_collection' =
                 IF IsNone(path_collection[r.path_id]) THEN path_collection
                 ELSE [path_collection EXCEPT ![r.path_id] =
                          Some(SetFields(The(@), The(handler[t].update_data)))]
           /\ handler' = [handler EXCEPT ![t] = Awaiting(r, "find_one", None)]
    /\ UNCHANGED <<pipelineVars, catalogVars, serviceVars, fallbackVars>>

\* repository.update_path lines 76-79 and what the callers make of the path
\* read back: update_learning_path raises 404 for None (lines 203-207), the
\* progress routes return it (None fails response_model=LearningPath: 500),
\* the notes and target-date routes return their message
FindOne(t) ==
    /\ handler[t].pc = "find_one"
    /\ LET r == The(handler[t].request)
           updated_path == GetPathById(r.path_id)
       IN  handler' = [handler EXCEPT ![t] =
               IF r.route = "update_path_notes"
               THEN Responded(r, 200, [message |-> "Notes updated successfully"])
               ELSE IF r.route = "update_target_completion_date"
               THEN Responded(r, 200, [message |-> "Target completion date updated successfully"])
               ELSE IF ~IsNone(updated_path)
               THEN Responded(r, 200, [path |-> The(updated_path)])
               ELSE IF r.route = "update_learning_path"
               THEN Responded(r, 404, [detail |-> "Learning path not found"])
               ELSE Responded(r, 500, [detail |-> "Internal Server Error"])]
    /\ UNCHANGED path_collection
    /\ UNCHANGED <<pipelineVars, catalogVars, serviceVars, fallbackVars>>

\* repository.delete_path (lines 81-89) and route lines 128-136
DeleteOne(t) ==
    /\ handler[t].pc = "delete_one"
    /\ LET r == The(handler[t].request)
       IN  IF IsNone(path_collection[r.path_id])
           THEN /\ handler' = [handler EXCEPT ![t] =
                      Responded(r, 404, [detail |-> "Learning path not found"])]
                /\ UNCHANGED path_collection
           ELSE /\ handler' = [handler EXCEPT ![t] =
                      Responded(r, 200, [message |-> "Learning path deleted successfully"])]
                /\ path_collection' = [path_collection EXCEPT ![r.path_id] = None]
    /\ UNCHANGED <<pipelineVars, catalogVars, serviceVars, fallbackVars>>

Init == PipelineInit /\ CatalogInit /\ ServiceIdle /\ FallbacksIdle /\ SavedPathsInit

Next ==
    \/ RequestFramework
    \/ RequestDetail
    \/ RequestResources
    \/ Merge
    \/ FrameworkFallback

Spec == Init /\ [][Next]_vars

\* nothing is under way: the caches are empty, one path is saved, and the
\* catalog and the routes on saved paths wait for requests
InitCatalog == PipelineIdle /\ CatalogInit /\ ServiceIdle /\ FallbacksIdle /\ SavedPathsInit

NextCatalog ==
    \/ \E t \in Tasks, niche_id \in NicheIdInputs, use_ai \in BOOLEAN :
          CallQuestionsFor(t, niche_id, use_ai)
    \/ \E t \in Tasks : CheckCache(t)
    \/ \E t \in Tasks : FindNicheStep(t)
    \/ \E t \in Tasks : GenerateQuestionsWithAI(t)
    \/ \E t \in Tasks : GetStaticQuestions(t)
    \/ \E t \in Tasks : StoreQuestions(t)
    \/ \E t \in Tasks : Finish(t)
    \/ ListNiches
    \/ \E req \in GenerateRequests : GenerateCall(req)
    \/ ResolveNiche
    \/ GenerateReturns

SpecCatalog == InitCatalog /\ [][NextCatalog]_vars

\* one run of generate_learning_path that is not abandoned: the coroutine is
\* driven by the event loop until it returns, and every completion request
\* comes back with an answer or an error
SpecLive == Init /\ [][Next]_vars /\ WF_vars(Next)

\* one POST /generate request served by a fresh LearningPathService
InitService ==
    /\ \E req \in GenerateRequests : request = Some(req)
    /\ http_error = NoError
    /\ niches_first = None
    /\ niches_last = None
    /\ generated = 1
    /\ niche_name = <<>>
    /\ answers = <<>>
    /\ pc = "request"
    /\ initial_path = None
    /\ i = 0
    /\ detailed_module = None
    /\ enhanced_modules = <<>>
    /\ result = None
    /\ raised = NoExc
    /\ calls = <<>>
    /\ CatalogInit
    /\ FallbacksIdle
    /\ SavedPathsInit

NextService ==
    \/ ResolveNiche
    \/ Next

SpecService == InitService /\ [][NextService]_vars

\* the three fallback generators, called in any order on inputs drawn at the
\* start
InitFallbacks ==
    /\ niche_name \in FallbackNicheNames
    /\ answers \in FallbackAnswers
    /\ pc = "idle"
    /\ initial_path = None
    /\ i = 0
    /\ detailed_module = None
    /\ enhanced_modules = <<>>
    /\ result = None
    /\ raised = NoExc
    /\ calls = <<>>
    /\ CatalogInit
    /\ ServiceIdle
    /\ FallbacksInit
    /\ SavedPathsInit

NextFallbacks ==
    \/ CallDetailFallback
    \/ CallResourceFallback
    \/ CallFrameworkFallback

SpecFallbacks == InitFallbacks /\ [][NextFallbacks]_vars

\* progress operations on the saved path, served concurrently; InitCatalog is
\* the state with the path saved and no request under way
NextProgress ==
    \/ \E t \in 1..MaxRequests, r \in ProgressRequests : RouteRequest(t, r)
    \/ \E t \in 1..MaxRequests : ServiceGet(t)
    \/ \E t \in 1..MaxRequests : UpdateOne(t)
    \/ \E t \in 1..MaxRequests : FindOne(t)

SpecProgress == InitCatalog /\ [][NextProgress]_vars

\* every route on a path id, called by the owner and by a stranger
NextAccess ==
    \/ \E t \in 1..MaxRequests, r \in AccessRequests : RouteRequest(t, r)
    \/ \E t \in 1..MaxRequests : ServiceGet(t)
    \/ \E t \in 1..MaxRequests : UpdateOne(t)
    \/ \E t \in 1..MaxRequests : FindOne(t)
    \/ \E t \in 1..MaxRequests : DeleteOne(t)

SpecAccess == InitCatalog /\ [][NextAccess]_vars



(***************************************************************************)
(* Properties of generate_learning_path (checked under Spec)               *)
(***************************************************************************)
\* positions in calls of the completion calls of a stage for the unit at index k
CallsOf(stage, k) ==
    {n \in 1..Len(calls) : calls[n].stage = stage /\ calls[n].unit = k}

Stage1Succeeded == Len(calls) >= 1 /\ calls[1].ok

Stage1Failed == Len(calls) >= 1 /\ ~calls[1].ok

\* the Stage 2 completion call of the unit at index k failed
Stage2FailedFor(k) == \E n \in CallsOf(2, k) : ~calls[n].ok

\* the Stage 3 completion call of the unit at index k failed
Stage3FailedFor(k) == \E n \in CallsOf(3, k) : ~calls[n].ok

Returned == pc = "done" /\ ~IsNone(result)

\* the module carries the four detail fields
HasDetail(m) ==
    /\ ~IsNone(m.subtopics)
    /\ ~IsNone(m.prerequisites)
    /\ ~IsNone(m.learningObjectives)
    /\ ~IsNone(m.projects)

\* C1: for every niche name, answers map and pattern of completion outcomes,
\* no exception leaves generate_learning_path, and a finished run has returned
\* a learning-path draft
C1_NoThrow ==
    /\ raised = NoExc
    /\ pc = "done" => /\ ~IsNone(result)
                      /\ DOMAIN The(result) = DOMAIN CreateFallbackLearningPath(<<>>, <<>>)

\* C1 witness: a run has returned although Stage 1 succeeded, a Stage 2 call
\* failed and its fallback raised on a unit without topics
C1_Witness ==
    /\ Returned
    /\ Stage1Succeeded
    /\ \E k \in 1..Len(The(initial_path).modules) :
          /\ Stage2FailedFor(k)
          /\ Len(The(initial_path).modules[k].topics) = 0

\* C2: whenever Stage 1 succeeded with units u_1..u_n, the returned draft has
\* exactly n modules and module k has the id of u_k, whatever failed later
C2_Completeness ==
    (Returned /\ Stage1Succeeded) =>
        LET units == The(initial_path).modules
            modules == The(result).modules
        IN  /\ Len(modules) = Len(units)
            /\ \A k \in 1..Len(units) : modules[k].id = units[k].id

\* C2 witness: a returned draft of two or more units numbered against their
\* order, with a failed Stage 2 call, a failed Stage 3 call and a Stage 2 answer
C2_Witness ==
    /\ Returned
    /\ Stage1Succeeded
    /\ LET units == The(initial_path).modules
       IN  /\ Len(units) >= 2
           /\ units[1].id > units[2].id
           /\ \E k \in 1..Len(units) : Stage2FailedFor(k)
           /\ \E k \in 1..Len(units) : Stage3FailedFor(k)
           /\ \E k \in 1..Len(units) : \E n \in CallsOf(2, k) : calls[n].ok

\* C3: for every unit whose Stage 2 completion call failed, Stage 3 of that
\* unit is still executed, and every unit of a finished run was processed
C3_FailureIsolation ==
    /\ \A k \in 1..Len(enhanced_modules) :
          Stage2FailedFor(k) => CallsOf(3, k) # {}
    /\ (Returned /\ Stage1Succeeded) =>
          \A k \in 1..Len(The(initial_path).modules) : CallsOf(2, k) # {}

HasBundle(k, unit, m) ==
    IF Stage3FailedFor(k)
    THEN m.resources =
             ResourceFallback(unit.id,
                 IF Len(The(m.subtopics)) > 0
                 THEN [j \in 1..Len(The(m.subtopics)) |-> The(m.subtopics)[j].title]
                 ELSE unit.topics).value[1].resources
    ELSE \E r \in Stage3Responses(unit.id) : m.resources = r.resources

C5_FallbackUnitsEnhanced ==
    (Returned /\ Stage1Failed) =>
        \A k \in 1..Len(The(result).modules) :
            CallsOf(2, k) # {} /\ CallsOf(3, k) # {}

\* C5 (amended): when the Stage 1 call failed, the run moves from the framework
\* fallback straight to its end: no Stage 2 or Stage 3 call is made and the
\* modules of the draft carry no detail field
C5_FallbackReturnedAsIs ==
    Stage1Failed =>
        /\ pc \in {"fallback", "done"}
        /\ Len(calls) = 1
        /\ IsNone(initial_path)
        /\ pc = "done" => /\ ~IsNone(result)
                          /\ \A k \in 1..Len(The(result).modules) :
                                ~HasDetail(The(result).modules[k])

\* C5 witness: a run whose Stage 1 call failed has returned a draft
C5_Witness ==
    /\ Returned
    /\ Stage1Failed
    /\ Len(The(result).modules) >= 3

\* C6: when the completion service failed every call, the returned draft is
\* the output of the framework fallback for the same niche name and answers
C6_TotalFailure ==
    (Returned /\ calls # <<>> /\ \A n \in 1..Len(calls) : ~calls[n].ok) =>
        The(result) = CreateFallbackLearningPath(niche_name, answers)

\* C6 witness: every call failed and the answers select the advanced modules
C6_Witness ==
    /\ Returned
    /\ calls # <<>>
    /\ \A n \in 1..Len(calls) : ~calls[n].ok
    /\ ExperienceLevel(answers) = "advanced"
    /\ Len(The(result).modules) = 3

\* C7: no returned draft has an empty module list; a run whose Stage 1 yields
\* no unit returns the minimal path of 2-4 canned modules
C7_NeverEmpty ==
    Returned =>
        /\ Len(The(result).modules) >= 1
        /\ (Stage1Succeeded /\ Len(The(initial_path).modules) = 0) =>
              /\ Len(The(result).modules) \in 2..4
              /\ The(result).niche = niche_name


\* what the completion service did in the one call of the stage for the unit
\* at index k
OwnOutcome(stage, k) ==
    LET n == CHOOSE n \in CallsOf(stage, k) : TRUE
    IN  [ok |-> calls[n].ok, value |-> calls[n].value]

\* lines 180-217 for one unit: the module the body of the loop appends, from
\* the unit and the outcomes of the unit's own Stage 2 and Stage 3 calls
LoopBody(module, k) ==
    LET d == GenerateDetailedModule(module, OwnOutcome(2, k))
    IN  IF d.exc # NoExc THEN module
        ELSE EnhancedModule(module, d.value[1],
                 GenerateVerifiedResources(module.id, SubtopicsFor(module, d.value[1]),
                                           OwnOutcome(3, k)).value[1])

\* C15: every module of a returned draft is determined by its own Stage 1 unit
\* and the outcomes of that unit's own completion calls; so a Stage 2 failure
\* of unit k changes no module but module k
C15_OtherUnitsUntouched ==
    (Returned /\ Stage1Succeeded) =>
        LET units == The(initial_path).modules
            modules == The(result).modules
        IN  /\ Len(modules) = Len(units)
            /\ \A k \in 1..Len(units) : modules[k] = LoopBody(units[k], k)

\* C15 witness: a returned draft of two or more units where the Stage 2 call
\* of one unit failed, its fallback raised, and the Stage 2 and Stage 3 calls of
\* another unit were answered by the service
C15_Witness ==
    /\ Returned
    /\ Stage1Succeeded
    /\ \E k, l \in 1..Len(The(initial_path).modules) :
          /\ k # l
          /\ Stage2FailedFor(k)
          /\ Len(The(initial_path).modules[k].topics) = 0
          /\ CallsOf(3, l) # {}
          /\ OwnOutcome(2, l).ok
          /\ OwnOutcome(3, l).ok

\* C16: for every unit whose Stage 2 and Stage 3 both gave a value, the module
\* of the draft has id, title, timeline, difficulty, topics and tips of the
\* Stage 1 unit, description, subtopics, prerequisites, learning objectives and
\* projects of the unit's detail, and the resources of the unit's bundle; when
\* Stage 2 was answered the description is the answer's, not the Stage 1 one
C16_MergedFields ==
    (Returned /\ Stage1Succeeded) =>
        \A k \in 1..Len(The(initial_path).modules) :
            CallsOf(3, k) # {} =>
                LET u == The(initial_path).modules[k]
                    m == The(result).modules[k]
                    c2 == OwnOutcome(2, k)
                    c3 == OwnOutcome(3, k)
                    d == IF c2.ok THEN c2.value[1] ELSE DetailFallback(u).value[1]
                    b == IF c3.ok THEN c3.value[1]
                         ELSE ResourceFallback(u.id, SubtopicsFor(u, d)).value[1]
                IN  /\ m.id = u.id
                    /\ m.title = u.title
                    /\ m.timeline = u.timeline
                    /\ m.difficulty = u.difficulty
                    /\ m.topics = u.topics
                    /\ m.tips = u.tips
                    /\ m.description = d.detailedDescription
                    /\ m.subtopics = Some(d.subtopics)
                    /\ m.prerequisites = Some(d.prerequisites)
                    /\ m.learningObjectives = Some(d.learningObjectives)
                    /\ m.projects = Some(d.projects)
                    /\ m.resources = b.resources
                    /\ c2.ok => m.description # u.description

\* C16 witness: a returned draft with a unit whose detail and bundle were both
\* answered by the service and a unit whose detail and bundle were synthesized
C16_Witness ==
    /\ Returned
    /\ Stage1Succeeded
    /\ \E k, l \in 1..Len(The(initial_path).modules) :
          /\ CallsOf(3, k) # {}
          /\ OwnOutcome(2, k).ok
          /\ OwnOutcome(3, k).ok
          /\ CallsOf(3, l) # {}
          /\ ~OwnOutcome(2, l).ok
          /\ ~OwnOutcome(3, l).ok

\* C23: every Stage 3 request for a unit comes after the Stage 2 call of the
\* same unit, which produced a detail; it is made about the titles of the
\* detail's subtopics when there are any and about the unit's topics
\* otherwise; and it yields a bundle whose resources the module carries
C23_Stage3AfterStage2 ==
    Stage1Succeeded =>
        \A n \in 1..Len(calls) :
            calls[n].stage = 3 =>
                LET k == calls[n].unit
                    u == The(initial_path).modules[k]
                    c2 == OwnOutcome(2, k)
                    d == IF c2.ok THEN c2.value[1] ELSE DetailFallback(u).value[1]
                    titles == [j \in 1..Len(d.subtopics) |-> d.subtopics[j].title]
                IN  /\ \E m \in 1..(n - 1) : calls[m].stage = 2 /\ calls[m].unit = k
                    /\ ~c2.ok => DetailFallback(u).exc = NoExc
                    /\ calls[n].subtopics = IF Len(titles) > 0 THEN titles ELSE u.topics
                    /\ Len(enhanced_modules) >= k
                    /\ HasDetail(enhanced_modules[k])
                    /\ HasBundle(k, u, enhanced_modules[k])

\* C23 witness: a Stage 3 request made about the unit's topics because the
\* Stage 2 answer had no subtopic, and one made about synthesized subtopics
C23_Witness ==
    /\ Stage1Succeeded
    /\ \E n, m \in 1..Len(calls) :
          /\ calls[n].stage = 3
          /\ OwnOutcome(2, calls[n].unit).ok
          /\ Len(OwnOutcome(2, calls[n].unit).value[1].subtopics) = 0
          /\ Len(calls[n].subtopics) > 0
          /\ calls[m].stage = 3
          /\ ~OwnOutcome(2, calls[m].unit).ok
          /\ ~calls[m].ok

\* number of units Stage 1 returned (none when it failed)
UnitsReturned == IF IsNone(initial_path) THEN 0 ELSE Len(The(initial_path).modules)

\* C24: every run makes at most 1 + 2*N completion calls, N being the number
\* of units Stage 1 returned: one Stage 1 call and per unit at most one Stage 2
\* and one Stage 3 call, a failed call never being made again; and every run
\* comes to its end
C24_BoundedCalls ==
    /\ [](/\ Len(calls) <= 1 + 2 * UnitsReturned
          /\ Cardinality(CallsOf(1, 0)) <= 1
          /\ \A n \in 1..Len(calls) : calls[n].stage = 1 \/ calls[n].unit \in 1..UnitsReturned
          /\ \A k \in 1..UnitsReturned :
                /\ Cardinality(CallsOf(2, k)) <= 1
                /\ Cardinality(CallsOf(3, k)) <= 1)
    /\ <>(pc = "done")

\* C24 witness: a finished run that made all 1 + 2*N calls for the most units,
\* with failed calls among them
C24_Witness ==
    /\ Returned
    /\ UnitsReturned = MaxUnits
    /\ Len(calls) = 1 + 2 * MaxUnits
    /\ \E n, m \in 1..Len(calls) :
          /\ calls[n].stage = 2 /\ ~calls[n].ok
          /\ calls[m].stage = 3 /\ ~calls[m].ok

(***************************************************************************)
(* Properties of get_questions_for_niche (checked under SpecCatalog)       *)
(***************************************************************************)
\* the call of task t has come back from a cache hit (lines 87-88)
ServedFromCache(t) == task[t].pc = "returned" /\ IsNone(task[t].questions)

\* C8: for every known niche id, the successive use_ai=true calls cause exactly
\* one completion call, whether it succeeded or failed, and every call returns
\* the questions the first call produced
C8_Memoization ==
    \A id \in NicheIdInputs \cap KnownNicheIds :
        /\ ai_calls[id] <= 1
        /\ \A t \in Tasks :
              (task[t].pc = "returned" /\ task[t].niche_id = id /\ task[t].use_ai) =>
                  /\ ai_calls[id] = 1
                  /\ task[t].ret = first_questions[id]

\* C8 witness: a later use_ai=true call is answered from the cache with the
\* fallback questions of a first call whose completion failed
C8_Witness ==
    \E t \in Tasks :
        /\ ServedFromCache(t)
        /\ task[t].use_ai
        /\ task[t].niche_id \in KnownNicheIds
        /\ started >= 2
        /\ The(task[t].ret) = GenerateFallbackQuestions(NicheNameTable[task[t].niche_id])

\* C9: in every step, every populated entry of the questions cache stays in
\* the cache with the same value, and an entry is only written when its key is
\* not yet in the cache
C9_WriteOnce ==
    [][ /\ \A k \in DOMAIN questions_cache :
              k \in DOMAIN questions_cache' /\ questions_cache'[k] = questions_cache[k]
        /\ \A t \in Tasks :
              (task[t].pc = "store" /\ task'[t].pc = "returned") =>
                  CacheKey(task[t].niche_id, task[t].use_ai) \notin DOMAIN questions_cache
      ]_vars

\* C9 witness: with three entries populated, a call is answered from the cache
C9_Witness ==
    /\ Cardinality(DOMAIN questions_cache) >= 3
    /\ \E t \in Tasks : ServedFromCache(t)

\* C10: a call for a niche id that is not in the catalog ends with the 404
\* error, having made no completion call and left the questions cache as it
\* was; no call ends with any other error
C10_UnknownNiche ==
    \A t \in Tasks :
        /\ task[t].niche_id \notin KnownNicheIds =>
              /\ task[t].pc \in {"idle", "check_cache", "find_niche", "raised"}
              /\ task[t].pc = "raised" =>
                    /\ task[t].error = HTTP_404_NOT_FOUND
                    /\ questions_cache = The(task[t].cache_at_call)
                    /\ ai_calls = The(task[t].ai_calls_at_call)
        /\ task[t].pc = "raised" =>
              /\ task[t].error = HTTP_404_NOT_FOUND
              /\ task[t].niche_id \notin KnownNicheIds
        /\ task[t].pc # "raised" => task[t].error = NoError

\* C10 witness: a use_ai=true call for id 16 has ended with the 404 error
\* while the cache holds entries
C10_Witness ==
    \E t \in Tasks :
        /\ task[t].pc = "raised"
        /\ task[t].niche_id = 16
        /\ task[t].use_ai
        /\ DOMAIN questions_cache # {}

\* C12: for every known niche id, a use_ai=false call makes no completion
\* call and returns the static questions of the niche, whether its entry and
\* the use_ai=true entry of the niche are in the cache or not
C12_StaticQuestions ==
    \A t \in Tasks :
        (task[t].pc # "idle" /\ task[t].niche_id \in KnownNicheIds /\ ~task[t].use_ai) =>
            /\ ai_calls = The(task[t].ai_calls_at_call)
            /\ IsNone(task[t].completion_ok)
            /\ task[t].pc # "raised"
            /\ task[t].pc = "returned" =>
                  task[t].ret = Some(GetStaticQuestionsForNiche(task[t].niche_id))

\* C12 witness: a use_ai=false call is answered from the cache while the cache
\* also holds the questions of the use_ai=true call for the same niche
C12_Witness ==
    \E t \in Tasks :
        /\ ServedFromCache(t)
        /\ ~task[t].use_ai
        /\ task[t].niche_id \in KnownNicheIds
        /\ CacheKey(task[t].niche_id, TRUE) \in DOMAIN questions_cache
        /\ task[t].ret = Some(GetStaticQuestionsForNiche(task[t].niche_id))

\* C13: when the completion call of a use_ai=true call fails, the call raises
\* no error and returns the five fallback questions written for the niche name
C13_QuestionsFallback ==
    \A t \in Tasks :
        task[t].completion_ok = Some(FALSE) =>
            /\ task[t].pc \in {"store", "returned"}
            /\ task[t].error = NoError
            /\ task[t].questions =
                   Some(GenerateFallbackQuestions(NicheNameTable[task[t].niche_id]))
            /\ Len(The(task[t].questions)) = 5
            /\ task[t].pc = "returned" => task[t].ret = task[t].questions

\* C13 witness: a use_ai=true call whose completion failed has returned
C13_Witness ==
    \E t \in Tasks :
        /\ task[t].pc = "returned"
        /\ task[t].use_ai
        /\ task[t].completion_ok = Some(FALSE)
        /\ Len(The(task[t].ret)) = 5

\* C14: every GET /niches returns the list the first one returned, the niches
\* with ids 1..15 in ascending order, whatever questions and generate requests
\* were served in between
C14_SameNiches ==
    ~IsNone(niches_last) =>
        /\ niches_last = niches_first
        /\ Len(The(niches_last)) = 15
        /\ \A k \in 1..15 : The(niches_last)[k].id = k

\* C14 witness: the niches were listed in a behaviour that also served a
\* generate request and filled the questions cache, and no call is left
C14_Witness ==
    /\ ~IsNone(niches_last)
    /\ generated >= 1
    /\ DOMAIN questions_cache # {}
    /\ started = MaxCalls
    /\ running = 0

(***************************************************************************)
(* Properties of the generate route (checked under SpecService)            *)
(***************************************************************************)
\* C11: path generation never signals the unknown-niche (404) error: every
\* request, one that carries its own niche name together with a niche id that
\* is not in the catalog included, is served with a draft
C11_GenerateNeverNotFound ==
    /\ http_error # HTTP_404_NOT_FOUND
    /\ pc # "rejected"
    /\ (~IsNone(request) /\ Truthy(The(request).customNiche) /\ pc = "done") =>
           ~IsNone(result)

(***************************************************************************)
(* Properties of the fallback generators (checked under SpecFallbacks)     *)
(***************************************************************************)
\* the link of a placeholder resource holds the title in lower case with sep
\* for each space
LinkDerivedFrom(link, title, sep) ==
    LET slug == Replace(Lower(title), " ", sep)
    IN  \E k \in 1..Len(link) : SubSeq(link, k, k + Len(slug) - 1) = slug

C18_DetailFallbackShape ==
    \A a \in 1..Len(detail_outputs) :
        LET out == detail_outputs[a]
            topics == The(module_in).topics
        IN  /\ out.exc = NoExc
            /\ out.value[1].moduleId = The(module_in).id
            /\ Len(out.value[1].subtopics) = Len(topics)
            /\ \A j \in 1..Len(topics) :
                  LET st == out.value[1].subtopics[j]
                  IN  /\ st.title = topics[j]
                      /\ Len(st.resources) = 1
                      /\ LinkDerivedFrom(st.resources[1].link, topics[j], <<"-">>)

\* C19: for subtopics s_1..s_k the Resource fallback returns a bundle keyed by
\* the given unit id with exactly 3k resources: for each s_j in order a
\* documentation, a tutorial and a video resource with links derived from s_j
C19_ResourceFallbackShape ==
    \A a \in 1..Len(resource_outputs) :
        LET out == resource_outputs[a]
            k == Len(subtopics_in)
        IN  /\ out.exc = NoExc
            /\ out.value[1].moduleId = The(module_in).id
            /\ Len(out.value[1].resources) = 3 * k
            /\ \A j \in 1..k :
                  LET r == out.value[1].resources
                  IN  /\ r[3 * j - 2].type = <<"documentation">>
                      /\ r[3 * j - 1].type = <<"tutorial">>
                      /\ r[3 * j].type = <<"video">>
                      /\ LinkDerivedFrom(r[3 * j - 2].link, subtopics_in[j], <<"_">>)
                      /\ LinkDerivedFrom(r[3 * j - 1].link, subtopics_in[j], <<"-">>)
                      /\ LinkDerivedFrom(r[3 * j].link, subtopics_in[j], <<"+">>)

\* C19 witness: the Resource fallback was called for two or more subtopics
C19_Witness ==
    /\ resource_outputs # <<>>
    /\ Len(subtopics_in) >= 2
    /\ Len(resource_outputs[1].value[1].resources) >= 6

\* C20: for every niche name and answers map the framework fallback returns
\* between 2 and 5 units whose ids are 1..n in list order
C20_FrameworkFallbackIds ==
    \A a \in 1..Len(framework_outputs) :
        LET modules == framework_outputs[a].modules
        IN  /\ Len(modules) \in 2..5
            /\ \A k \in 1..Len(modules) : modules[k].id = k

\* C20 witness: the framework fallback was called with answers that leave the
\* Fundamentals module out, and with an empty niche name
C20_Witness ==
    /\ framework_outputs # <<>>
    /\ ExperienceLevel(answers) = "advanced"
    /\ niche_name = <<>>
    /\ Len(framework_outputs[1].modules) = 3

\* the canned modules of a framework-fallback draft, by their difficulty
\* (Beginner: Fundamentals, Intermediate, Advanced, Varies: Practical)
ModuleKinds(path) == [k \in 1..Len(path.modules) |-> path.modules[k].difficulty]

\* C21: the modules of the framework fallback are decided by the value of the
\* first answers entry whose question id contains "experience" (in any case):
\* with "advanced" or "expert" in it Intermediate, Advanced, Practical;
\* otherwise with "intermediate" in it Fundamentals, Intermediate, Advanced,
\* Practical; in every other case Fundamentals, Intermediate, Practical
C21_ExperienceDecides ==
    \A a \in 1..Len(framework_outputs) :
        LET about == {k \in 1..Len(answers) : Contains(Lower(answers[k][1]), experience)}
            kinds == ModuleKinds(framework_outputs[a])
            F == <<"Beginner">>
            I == <<"Intermediate">>
            A == <<"Advanced">>
            P == <<"Varies">>
        IN  IF about = {} THEN kinds = <<F, I, P>>
            ELSE LET value == Lower(answers[CHOOSE k \in about :
                                               \A h \in about : k <= h][2])
                 IN  IF Contains(value, advanced) \/ Contains(value, expert)
                     THEN kinds = <<I, A, P>>
                     ELSE IF Contains(value, intermediate)
                     THEN kinds = <<F, I, A, P>>
                     ELSE kinds = <<F, I, P>>

\* C21 witness: the framework fallback was called with two entries about
\* experience, the first of them intermediate and the second advanced
C21_Witness ==
    /\ framework_outputs # <<>>
    /\ Cardinality({k \in 1..Len(answers) :
                       Contains(Lower(answers[k][1]), experience)}) = 2
    /\ Len(framework_outputs[1].modules) = 4

StoredModules ==
    IF IsNone(path_collection[SavedId]) THEN <<>>
    ELSE The(path_collection[SavedId]).modules

\* C25: on every route that takes a path id (read, update, delete, progress,
\* custom resource, stats, notes, target date), a caller who is not the owner
\* of the stored path is answered 403 in the first step of the request, and
\* that step leaves the collection as it was
C25_OwnerOnly ==
    [][\A t \in 1..MaxRequests :
          handler'[t] # handler[t] =>
              LET r == The(handler'[t].request)
              IN  (/\ ObjectIdIsValid(r.path_id)
                   /\ ~IsNone(path_collection[r.path_id])
                   /\ The(path_collection[r.path_id]).userId # r.current_user)
                  => /\ handler'[t].pc = "done"
                     /\ handler'[t].status = 403
                     /\ path_collection' = path_collection]_vars

\* C25 witness: the owner's notes are stored, and a stranger's DELETE of the
\* path was answered 403 with the path still stored
C25_Witness ==
    /\ ~IsNone(path_collection[SavedId])
    /\ The(path_collection[SavedId]).custom_notes = Some("remember the basics")
    /\ \E t \in 1..MaxRequests :
          /\ handler[t].pc = "done"
          /\ handler[t].status = 403
          /\ The(handler[t].request).route = "delete_learning_path"
          /\ The(handler[t].request).current_user = Stranger

\* C26: after any progress operations, the progress of every module of the
\* stored path lies between 0 and 100 inclusive
C26_ProgressInRange ==
    \A k \in 1..Len(StoredModules) :
        /\ ~Less(StoredModules[k].progress, <<0, 1>>)
        /\ ~Less(<<100, 1>>, StoredModules[k].progress)

\* C27: when exactly two progress operations have run, on different modules
\* of the saved path, and both were answered 200, the stored path carries the
\* change of each: its module is what the operation makes of the fresh module
C27_NoLostUpdate ==
    \A s, t \in 1..MaxRequests :
        LET rs == The(handler[s].request)
            rt == The(handler[t].request)
            progress_routes == {"update_module_progress", "update_resource_progress",
                                "add_custom_resource"}
            fresh == MapToLearningPath(SavedId, Document(Owner, SavedPathData))
        IN  (/\ s # t
             /\ handler[s].pc = "done" /\ handler[s].status = 200
             /\ handler[t].pc = "done" /\ handler[t].status = 200
             /\ \A o \in (1..MaxRequests) \ {s, t} : handler[o].pc = "idle"
             /\ rs.route \in progress_routes
             /\ rt.route \in progress_routes
             /\ ModuleIdOf(rs) # ModuleIdOf(rt))
            => \A r \in {rs, rt} :
                  LET k == FindModule(fresh.modules, ModuleIdOf(r))
                  IN  StoredModules[k] = ChangedModules(fresh, r).value[1][k]

\* C28: after any progress operations on the freshly saved path, every module
\* of the stored path has completed true exactly when completed_at is set
C28_CompletedIffDate ==
    \A k \in 1..Len(StoredModules) :
        StoredModules[k].completed <=> ~IsNone(StoredModules[k].completed_at)

\* C28 witness: a resource update completed module 1 (the path it returned
\* shows completed and completed_at), a module update reopened it, and the
\* stored module is neither completed nor dated
C28_Witness ==
    /\ \E t \in 1..MaxRequests :
          /\ handler[t].pc = "done" /\ handler[t].status = 200
          /\ The(handler[t].request).route = "update_resource_progress"
          /\ The(handler[t].body).path.modules[1].completed
          /\ ~IsNone(The(handler[t].body).path.modules[1].completed_at)
    /\ \E t \in 1..MaxRequests :
          /\ handler[t].pc = "done" /\ handler[t].status = 200
          /\ The(handler[t].request).route = "update_module_progress"
          /\ The(handler[t].request).argument.progress_update.completed = Some(FALSE)
    /\ ~StoredModules[1].completed
    /\ IsNone(StoredModules[1].completed_at)

\* C29: a GET /{path_id} that arrives after update_path_notes (or
\* update_target_completion_date) on the path was answered returns the path
\* with custom_notes equal to the notes (target_completion_date equal to the
\* parsed date)
C29_ReadBack ==
    [][\A t \in 1..MaxRequests :
          (/\ handler[t].pc = "idle"
           /\ handler'[t].pc = "done"
           /\ handler'[t].status = 200
           /\ The(handler'[t].request).route = "get_learning_path")
          => \A s \in 1..MaxRequests :
                (/\ handler[s].pc = "done" /\ handler[s].status = 200
                 /\ The(handler[s].request).path_id = The(handler'[t].request).path_id)
                => LET w == The(handler[s].request)
                       path == The(handler'[t].body).path
                   IN  /\ w.route = "update_path_notes"
                          => path.custom_notes = Some(w.argument.notes)
                       /\ w.route = "update_target_completion_date"
                          => path.target_completion_date =
                                FromIsoFormat(Replace(w.argument.target_date, "Z", <<"+00:00">>)).value]_vars

=============================================================================
